---------------------------- MODULE Spec2Model ----------------------------
(***************************************************************************)
(* Multi-camera frame extraction (makerrrrrr/video-demo).                  *)
(*                                                                         *)
(* Spec   : a driver that runs extract_frames_single and then              *)
(*          extract_frames_parallel on the same input directory, followed  *)
(*          by the consumer loop of minimal_frame_extract.cpp.             *)
(* SpecQ  : BlockingQueue<T> on its own, driven by concurrent producers,   *)
(*          consumers and closers.                                         *)
(***************************************************************************)
EXTENDS Integers, Sequences, FiniteSets, TLC

(***************************************************************************)
(* Bounds of the model.                                                    *)
(***************************************************************************)
MaxStreams == 2        \* video files in the input directory
MaxPackets == 5        \* packets the readers of one run push: one per frame, one terminal per file
MaxPush == 2           \* push calls of the BlockingQueue driver
MaxTasks == 2          \* tasks given to a VideoTaskManager

thread_count == 2      \* worker threads started by main

CamIds == 0 .. (MaxStreams - 1)
QThreads == {"t1", "t2", "t3"}
VThreads == 1 .. thread_count

VARIABLES
    \* ---- inputs
    input_dir,              \* the directory: exists, entries (video files)
    \* ---- extract_frames_single
    pcS, s_streams, s_pos, s_frame_index, single_queue,
    \* ---- extract_frames_parallel: main thread (assembler)
    pcA, packet_queue, stop_flag, stop_stores, workers, total_cams, reference_fps,
    frame_buffer, finished_cams, next_batch_index, first_eof_frame_index,
    cam_eof_indices, output_queue,
    \* ---- reader_worker threads, indexed like `workers`
    r_pc, r_stream, r_pos, r_frame, r_frame_index,
    \* ---- consumer (main of minimal_frame_extract.cpp)
    pcC, batch_count, consumed,
    \* ---- history of the run (observation only); stop_stores, declared with
    \*      stop_flag, counts the calls of stop_flag.store
    pushed_packets,         \* per worker: the packets it handed to push
    emitted,                \* batches handed to output_queue.push, in order
    dropped,                \* pushes that met a closed queue
    \* ---- BlockingQueue driver
    bq, q_pc, q_result, q_waiters, q_next, q_accepted, q_returned, q_last,
    q_owner,                \* the thread that pushed each value
    \* ---- VideoTaskManager and the threads of minimal_video_read_test.cpp
    tasks,                  \* the vector given to the constructor
    task_queue_, completed_tasks_, exit_flag_, completed_count_, total_tasks_,
    v_pc, v_task, v_waiters,    \* video_read_thread workers
    m_pc, all_ok,               \* main
    handed, finish_calls, v_last    \* history (observation only)

varsIn == <<input_dir>>
varsS == <<pcS, s_streams, s_pos, s_frame_index, single_queue>>
varsA == <<pcA, packet_queue, stop_flag, stop_stores, workers, total_cams, reference_fps,
           frame_buffer, finished_cams, next_batch_index,
           first_eof_frame_index, cam_eof_indices, output_queue>>
varsR == <<r_pc, r_stream, r_pos, r_frame, r_frame_index>>
varsC == <<pcC, batch_count, consumed>>
varsH == <<pushed_packets, emitted, dropped>>
varsQ == <<bq, q_pc, q_result, q_waiters, q_next, q_accepted, q_returned, q_last, q_owner>>
varsV == <<tasks, task_queue_, completed_tasks_, exit_flag_, completed_count_, total_tasks_,
           v_pc, v_task, v_waiters, m_pc, all_ok, handed, finish_calls, v_last>>
vars == <<varsIn, varsV, varsS, varsA, varsR, varsC, varsH, varsQ>>

(***************************************************************************)
(* std::map<K, V> as a function with a finite domain.                      *)
(***************************************************************************)
EmptyMap == [x \in {} |-> 0]

MapPut(m, k, v) == [x \in (DOMAIN m) \cup {k} |-> IF x = k THEN v ELSE m[x]]

\* std::map::emplace: an existing key keeps its value
MapEmplace(m, k, v) == IF k \in DOMAIN m THEN m ELSE MapPut(m, k, v)

\* variant: the erase is left out
MapErase_Keeps(m, k) == m

MapErase(m, k) == [x \in (DOMAIN m) \ {k} |-> m[x]]

(***************************************************************************)
(* std::optional<T>                                                        *)
(***************************************************************************)
nullopt == [has_value |-> FALSE]

Some(v) == [has_value |-> TRUE, value |-> v]

(***************************************************************************)
(* BlockingQueue<T>: the state guarded by mutex_ and what each critical    *)
(* section does to it.                                                     *)
(***************************************************************************)
\* variant: closed_ = true at construction
NewQueue_Closed == [queue |-> <<>>, closed |-> TRUE]

NewQueue == [queue |-> <<>>, closed |-> FALSE]

\* variant: enqueue without looking at closed_
QPush_IgnoreClosed(q, v) == [q EXCEPT !.queue = Append(@, v)]

\* push: the locked block
\* variant: queue_.push_front(value) on a deque
QPush_Front(q, v) == IF q.closed THEN q ELSE [q EXCEPT !.queue = <<v>> \o @]

QPush(q, v) == IF q.closed THEN q ELSE [q EXCEPT !.queue = Append(@, v)]

\* variant: the predicate without closed_
QWaitDone_IgnoresClose(q) == q.queue # <<>>

\* pop: the predicate of cv_.wait
QWaitDone(q) == q.closed \/ q.queue # <<>>

\* variant: a closed queue is treated as drained
QPopResult_ClosedFirst(q) ==
    IF q.closed \/ q.queue = <<>> THEN nullopt ELSE Some(Head(q.queue))

\* pop: what is returned once the wait is over
QPopResult(q) == IF q.queue = <<>> THEN nullopt ELSE Some(Head(q.queue))

\* variant: front() without pop()
QPopQueue_Keeps(q) == q

\* pop: the queue it leaves
QPopQueue(q) == IF q.queue = <<>> THEN q ELSE [q EXCEPT !.queue = Tail(@)]

\* variant: closed_ is left as it is
QClose_Forgets(q) == q

\* variant: close discards what is queued
QClose_Clears(q) == [queue |-> <<>>, closed |-> TRUE]

\* close: the locked block
QClose(q) == [q EXCEPT !.closed = TRUE]


(***************************************************************************)
(* The input directory.  A video file is named by its position in the      *)
(* directory walk (its path); it carries the camera id parse_cam_id gives  *)
(* it, whether cv::VideoCapture opens it, the frames it holds and its      *)
(* CAP_PROP_FPS.  A read fails from position `len` on (end of file or a    *)
(* decode error: cap->read returns false either way).                      *)
(***************************************************************************)
\* camera ids of n files in walk order: 0 first, each next id equal or one higher
IdLists(n) ==
    { ids \in [1 .. n -> CamIds] :
        /\ n > 0 => ids[1] = 0
        /\ \A i \in 1 .. n : i > 1 => ids[i] \in {ids[i - 1], ids[i - 1] + 1} }

RECURSIVE SumLen(_)
SumLen(s) == IF s = <<>> THEN 0 ELSE Head(s) + SumLen(Tail(s))

LenLists(n) == { lens \in [1 .. n -> 0 .. MaxPackets] : n + SumLen(lens) <= MaxPackets }

\* the rate of the file at position i when it reports one
Rate(i) == 20 + 5 * i

HasDuplicates(ids) == \E i, j \in DOMAIN ids : i # j /\ ids[i] = ids[j]

\* the first `unknown` files report CAP_PROP_FPS 0, the files of `failed` do not
\* open (and so yield no frame).  A directory departs from the regular layout
\* (distinct ids, every file opens, every rate known) in one respect at a time.
VideoFiles(n) ==
    { [i \in 1 .. n |-> [cam_id |-> t[1][i], opened |-> i \notin t[4], len |-> t[2][i],
                         fps |-> IF i <= t[3] THEN 0 ELSE Rate(i)]] :
        t \in { u \in IdLists(n) \X LenLists(n) \X (0 .. n) \X (SUBSET (1 .. n)) :
                  /\ \A i \in u[4] : u[2][i] = 0
                  /\ HasDuplicates(u[1]) => (u[3] = 0 /\ u[4] = {})
                  /\ u[4] # {} => u[3] = 0 } }

Directories ==
    { [exists |-> FALSE, entries |-> <<>>] } \cup
    { [exists |-> TRUE, entries |-> e] : e \in UNION { VideoFiles(n) : n \in 0 .. MaxStreams } }

\* struct VideoStream; cap is the capture: the file's frames and the read position
VideoStream(dir, i) ==
    [cam_id |-> dir.entries[i].cam_id, path |-> i,
     len |-> dir.entries[i].len, fps |-> dir.entries[i].fps]

\* the pixels of frame k of the file at `path`
Frame(path, k) == <<path, k>>

\* cv::Mat()
EmptyMat == <<>>

\* variant: a file that does not open is kept, as a stream that yields no frame
RECURSIVE OpenedStreams_KeepsFailed(_, _)
OpenedStreams_KeepsFailed(dir, i) ==
    IF i > Len(dir.entries) THEN <<>>
    ELSE <<VideoStream(dir, i)>> \o OpenedStreams_KeepsFailed(dir, i + 1)

\* the loop of collect_streams: a file whose capture does not open is skipped
RECURSIVE OpenedStreams(_, _)
OpenedStreams(dir, i) ==
    IF i > Len(dir.entries) THEN <<>>
    ELSE IF dir.entries[i].opened
         THEN <<VideoStream(dir, i)>> \o OpenedStreams(dir, i + 1)
         ELSE OpenedStreams(dir, i + 1)

IsSortedByCamId(s) == \A i, j \in DOMAIN s : i < j => s[i].cam_id <= s[j].cam_id

\* collect_streams: the opened files, sorted by cam_id.  std::sort is not
\* stable, so files of equal cam_id may come in either order.
collect_streams(dir) ==
    LET opened == OpenedStreams(dir, 1)
        n == Len(opened)
        perms == { p \in [1 .. n -> 1 .. n] : \A i, j \in 1 .. n : i # j => p[i] # p[j] }
    IN  { s \in { [i \in 1 .. n |-> opened[p[i]]] : p \in perms } : IsSortedByCamId(s) }

(***************************************************************************)
(* Timestamps are doubles index / fps; they are kept as reduced fractions. *)
(***************************************************************************)
RECURSIVE Gcd(_, _)
Gcd(a, b) == IF b = 0 THEN a ELSE Gcd(b, a % b)

Fraction(n, d) == IF n = 0 THEN <<0, 1>> ELSE <<n \div Gcd(n, d), d \div Gcd(n, d)>>

\* fps > 0.0 ? index / fps : 0.0
Timestamp(index, fps) == IF fps > 0 THEN Fraction(index, fps) ELSE <<0, 1>>

FrameBatch(index, ts, frames) == [frame_index |-> index, timestamp |-> ts, frames |-> frames]

FramePacket(cam, index, frame, eof) ==
    [cam_id |-> cam, frame_index |-> index, frame |-> frame, eof |-> eof]

(***************************************************************************)
(* extract_frames_single                                                   *)
(***************************************************************************)
\* variant: only the read of streams.front() is tested
FirstFailing_FrontOnly(streams, pos) == IF pos[1] >= streams[1].len THEN 1 ELSE 0

\* the first stream whose read fails in this round, 0 when every read succeeds
FirstFailing(streams, pos) ==
    LET failing == { j \in DOMAIN streams : pos[j] >= streams[j].len }
    IN  IF failing = {} THEN 0 ELSE CHOOSE j \in failing : \A k \in failing : j <= k

\* the for loop over streams: batch.frames.emplace(cam_id, frame) for streams j .. n
RECURSIVE ReadRound(_, _, _, _)
ReadRound(streams, pos, j, frames) ==
    IF j > Len(streams) THEN frames
    ELSE ReadRound(streams, pos, j + 1,
                   MapEmplace(frames, streams[j].cam_id, Frame(streams[j].path, pos[j])))

SingleCall ==
    /\ pcS = "call"
    /\ IF ~input_dir.exists
       THEN /\ single_queue' = QClose(single_queue)
            /\ pcS' = "done"
            /\ UNCHANGED <<s_streams, s_pos>>
       ELSE \E streams \in collect_streams(input_dir) :
              IF streams = <<>>
              THEN /\ single_queue' = QClose(single_queue)
                   /\ pcS' = "done"
                   /\ UNCHANGED <<s_streams, s_pos>>
              ELSE /\ s_streams' = streams
                   /\ s_pos' = [j \in DOMAIN streams |-> 0]
                   /\ pcS' = "loop"
                   /\ UNCHANGED single_queue
    /\ UNCHANGED <<s_frame_index, varsIn, varsV, varsA, varsR, varsC, varsH, varsQ>>

\* one round of while (!stop)
SingleRound ==
    /\ pcS = "loop"
    /\ LET f == FirstFailing(s_streams, s_pos)
           ts == Timestamp(s_frame_index, s_streams[1].fps)
       IN  IF f # 0
           THEN /\ s_pos' = [j \in DOMAIN s_pos |-> IF j < f THEN s_pos[j] + 1 ELSE s_pos[j]]
                /\ single_queue' = QClose(single_queue)
                /\ pcS' = "done"
                /\ UNCHANGED s_frame_index
           ELSE /\ s_pos' = [j \in DOMAIN s_pos |-> s_pos[j] + 1]
                /\ single_queue' =
                      QPush(single_queue,
                            FrameBatch(s_frame_index, ts, ReadRound(s_streams, s_pos, 1, EmptyMap)))
                /\ s_frame_index' = s_frame_index + 1
                /\ UNCHANGED pcS
    /\ UNCHANGED <<s_streams, varsIn, varsV, varsA, varsR, varsC, varsH, varsQ>>


(***************************************************************************)
(* reader_worker: one thread per stream.                                   *)
(*   check : about to evaluate while (!stop_flag.load()) and, when the     *)
(*           flag is clear, stream.cap->read(frame)                        *)
(*   push  : a frame was read, about to push its packet                    *)
(*   eof   : left the loop, about to push the terminal packet              *)
(*   done  : returned                                                      *)
(***************************************************************************)
\* cap->read(frame): whether the capture at position pos still yields a frame
ReadSucceeds(stream, pos) == pos < stream.len

ReaderCheck(w) ==
    /\ w \in workers
    /\ r_pc[w] = "check"
    /\ IF stop_flag
       THEN /\ r_pc' = [r_pc EXCEPT ![w] = "eof"]
            /\ UNCHANGED <<r_pos, r_frame>>
       ELSE IF ReadSucceeds(r_stream[w], r_pos[w])
       THEN /\ r_frame' = [r_frame EXCEPT ![w] = Frame(r_stream[w].path, r_pos[w])]
            /\ r_pos' = [r_pos EXCEPT ![w] = @ + 1]
            /\ r_pc' = [r_pc EXCEPT ![w] = "push"]
       ELSE /\ r_pc' = [r_pc EXCEPT ![w] = "eof"]
            /\ UNCHANGED <<r_pos, r_frame>>
    /\ UNCHANGED <<r_stream, r_frame_index, varsIn, varsV, varsS, varsA, varsC, varsH, varsQ>>

\* the packet of a frame that was read: {cam_id, frame_index++, frame.clone(), false}
ReadPacket(stream, index, frame) == FramePacket(stream.cam_id, index, frame, FALSE)

\* variant: the terminal packet carries frame_index + 1
EofPacket_OffByOne(stream, index) == FramePacket(stream.cam_id, index + 1, EmptyMat, TRUE)

\* the terminal packet: {cam_id, frame_index, cv::Mat(), true}
EofPacket(stream, index) == FramePacket(stream.cam_id, index, EmptyMat, TRUE)

\* variant: frame_index is never incremented
NextFrameIndex_Stuck(index) == index

\* frame_index++
NextFrameIndex(index) == index + 1

ReaderPush(w) ==
    /\ w \in workers
    /\ r_pc[w] = "push"
    /\ LET packet == ReadPacket(r_stream[w], r_frame_index[w], r_frame[w])
       IN  /\ packet_queue' = QPush(packet_queue, packet)
           /\ pushed_packets' = [pushed_packets EXCEPT ![w] = Append(@, packet)]
           /\ dropped' = IF packet_queue.closed THEN dropped + 1 ELSE dropped
    /\ r_frame_index' = [r_frame_index EXCEPT ![w] = NextFrameIndex(@)]
    /\ r_pc' = [r_pc EXCEPT ![w] = "check"]
    /\ UNCHANGED <<r_stream, r_pos, r_frame, emitted, varsIn, varsV, varsS, varsC, varsQ,
                   pcA, stop_flag, stop_stores, workers, total_cams, reference_fps, frame_buffer,
                   finished_cams, next_batch_index, first_eof_frame_index,
                   cam_eof_indices, output_queue>>

ReaderEof(w) ==
    /\ w \in workers
    /\ r_pc[w] = "eof"
    /\ LET packet == EofPacket(r_stream[w], r_frame_index[w])
       IN  /\ packet_queue' = QPush(packet_queue, packet)
           /\ pushed_packets' = [pushed_packets EXCEPT ![w] = Append(@, packet)]
           /\ dropped' = IF packet_queue.closed THEN dropped + 1 ELSE dropped
    /\ r_pc' = [r_pc EXCEPT ![w] = "done"]
    /\ UNCHANGED <<r_stream, r_pos, r_frame, r_frame_index, emitted, varsIn, varsV, varsS, varsC, varsQ,
                   pcA, stop_flag, stop_stores, workers, total_cams, reference_fps, frame_buffer,
                   finished_cams, next_batch_index, first_eof_frame_index,
                   cam_eof_indices, output_queue>>

(***************************************************************************)
(* extract_frames_parallel: the calling thread.                            *)
(***************************************************************************)
\* variant: fps_values.front(), as extract_frames_single takes it
ReferenceFps_Front(fps_values) == IF fps_values = <<>> THEN 0 ELSE Head(fps_values)

\* the loop over fps_values: the first positive rate, else 0.0
RECURSIVE ReferenceFps(_)
ReferenceFps(fps_values) ==
    IF fps_values = <<>> THEN 0
    ELSE IF Head(fps_values) > 0 THEN Head(fps_values)
    ELSE ReferenceFps(Tail(fps_values))

\* variant: !it->second.empty()
IsComplete_NonEmpty(frames, total) == DOMAIN frames # {}

\* variant: it->second.size() + 1 >= total_cams
IsComplete_AllButOne(frames, total) == Cardinality(DOMAIN frames) + 1 >= total

\* variant: complete when every distinct camera id has a frame
IsComplete_DistinctIds(frames, total) ==
    DOMAIN frames = { r_stream[w].cam_id : w \in DOMAIN r_stream }

\* it->second.size() == total_cams
IsComplete(frames, total) == Cardinality(DOMAIN frames) = total

\* the lambda try_output_complete_batches on the state it captures;
\* st = [frame_buffer, next_batch_index, output_queue, emitted, dropped]
RECURSIVE try_output_complete_batches(_, _, _, _)
try_output_complete_batches(st, first_eof, total, ref_fps) ==
    IF first_eof >= 0 /\ st.next_batch_index >= first_eof THEN st
    ELSE IF st.next_batch_index \notin DOMAIN st.frame_buffer THEN st
    ELSE IF ~IsComplete(st.frame_buffer[st.next_batch_index], total) THEN st
    ELSE LET batch == FrameBatch(st.next_batch_index,
                                 Timestamp(st.next_batch_index, ref_fps),
                                 st.frame_buffer[st.next_batch_index])
         IN  try_output_complete_batches(
                 [frame_buffer |-> MapErase(st.frame_buffer, st.next_batch_index),
                  next_batch_index |-> st.next_batch_index + 1,
                  output_queue |-> QPush(st.output_queue, batch),
                  emitted |-> Append(st.emitted, batch),
                  dropped |-> IF st.output_queue.closed THEN st.dropped + 1 ELSE st.dropped],
                 first_eof, total, ref_fps)

Captured == [frame_buffer |-> frame_buffer, next_batch_index |-> next_batch_index,
             output_queue |-> output_queue, emitted |-> emitted, dropped |-> dropped]

\* variant: frame_buffer[packet.frame_index] = {{packet.cam_id, packet.frame}}
BufferFrame_Overwrite(fb, packet) ==
    MapPut(fb, packet.frame_index, MapPut(EmptyMap, packet.cam_id, packet.frame))

\* variant: frame_buffer[packet.cam_id].emplace(packet.frame_index, packet.frame)
BufferFrame_Swapped(fb, packet) ==
    MapPut(fb, packet.cam_id,
           MapEmplace(IF packet.cam_id \in DOMAIN fb THEN fb[packet.cam_id] ELSE EmptyMap,
                      packet.frame_index, packet.frame))

\* frame_buffer[packet.frame_index].emplace(packet.cam_id, packet.frame)
BufferFrame(fb, packet) ==
    MapPut(fb, packet.frame_index,
           MapEmplace(IF packet.frame_index \in DOMAIN fb THEN fb[packet.frame_index] ELSE EmptyMap,
                      packet.cam_id, packet.frame))

\* variant: no packet is taken for a straggler
IsStraggler_Never(eofs, packet) == FALSE

\* the straggler test of both loops
IsStraggler(eofs, packet) ==
    packet.cam_id \in DOMAIN eofs /\ packet.frame_index >= eofs[packet.cam_id]

\* variant: every terminal packet overwrites first_eof_frame_index
FirstEof_Latest(first_eof, packet) == packet.frame_index

\* variant: only the first terminal packet sets first_eof_frame_index
FirstEof_KeepsFirst(first_eof, packet) ==
    IF first_eof < 0 THEN packet.frame_index ELSE first_eof

\* first_eof_frame_index after a terminal packet
FirstEof(first_eof, packet) ==
    IF first_eof < 0 THEN packet.frame_index
    ELSE IF packet.frame_index < first_eof THEN packet.frame_index ELSE first_eof

\* variant: the store on the first terminal packet
StopAfterEof_OnFirst(finished, total) == finished >= 1

\* variant: the store on every terminal packet but the last
StopAfterEof_BeforeLast(finished, total) == finished < total

\* whether the terminal packet just counted makes the loop store stop_flag
StopAfterEof(finished, total) == finished = total

SetCaptured(st) ==
    /\ frame_buffer' = st.frame_buffer
    /\ next_batch_index' = st.next_batch_index
    /\ output_queue' = st.output_queue
    /\ emitted' = st.emitted
    /\ dropped' = st.dropped

ParallelCall ==
    /\ pcA = "call"
    /\ pcS = "done"
    /\ IF ~input_dir.exists
       THEN /\ output_queue' = QClose(output_queue)
            /\ pcA' = "done"
            /\ UNCHANGED <<workers, total_cams, reference_fps, varsR, pushed_packets>>
       ELSE \E streams \in collect_streams(input_dir) :
              IF streams = <<>> \/ Len(streams) = 0
              THEN /\ output_queue' = QClose(output_queue)
                   /\ pcA' = "done"
                   /\ UNCHANGED <<workers, total_cams, reference_fps, varsR, pushed_packets>>
              ELSE /\ workers' = DOMAIN streams
                   /\ r_stream' = streams
                   /\ r_pc' = [w \in DOMAIN streams |-> "check"]
                   /\ r_pos' = [w \in DOMAIN streams |-> 0]
                   /\ r_frame' = [w \in DOMAIN streams |-> EmptyMat]
                   /\ r_frame_index' = [w \in DOMAIN streams |-> 0]
                   /\ pushed_packets' = [w \in DOMAIN streams |-> <<>>]
                   /\ total_cams' = Len(streams)
                   /\ reference_fps' = ReferenceFps([w \in DOMAIN streams |-> streams[w].fps])
                   /\ pcA' = "main_loop"
                   /\ UNCHANGED output_queue
    /\ UNCHANGED <<packet_queue, stop_flag, stop_stores, frame_buffer, finished_cams, next_batch_index,
                   first_eof_frame_index, cam_eof_indices, emitted, dropped,
                   varsIn, varsV, varsS, varsC, varsQ>>

\* variant: the loop ends when one camera is left
LoopContinues_AllButOne(finished, total) == finished + 1 < total

\* variant: the loop ends with the first terminal packet
LoopContinues_UntilFirstEof(finished, total) == finished < 1

\* the condition of the main loop
LoopContinues(finished, total) == finished < total

\* one round of while (finished_cams < total_cams): pop a packet and handle it
MainLoopPop ==
    /\ pcA = "main_loop"
    /\ LoopContinues(finished_cams, total_cams)
    /\ QWaitDone(packet_queue)
    /\ packet_queue' = QPopQueue(packet_queue)
    /\ LET packet_opt == QPopResult(packet_queue)
       IN  IF ~packet_opt.has_value
           THEN \* break when the queue is closed with cameras unfinished, else continue
                /\ pcA' = IF packet_queue.closed /\ finished_cams < total_cams
                          THEN "exit_loop" ELSE "main_loop"
                /\ UNCHANGED <<stop_flag, stop_stores, frame_buffer, finished_cams, next_batch_index,
                               first_eof_frame_index, cam_eof_indices, output_queue,
                               emitted, dropped>>
           ELSE LET packet == packet_opt.value
                IN  IF packet.eof
                    THEN LET first_eof == FirstEof(first_eof_frame_index, packet)
                         IN  /\ cam_eof_indices' =
                                    MapPut(cam_eof_indices, packet.cam_id, packet.frame_index)
                             /\ finished_cams' = finished_cams + 1
                             /\ first_eof_frame_index' = first_eof
                             /\ stop_flag' = IF StopAfterEof(finished_cams + 1, total_cams)
                                             THEN TRUE ELSE stop_flag
                             /\ stop_stores' = IF StopAfterEof(finished_cams + 1, total_cams)
                                               THEN stop_stores + 1 ELSE stop_stores
                             /\ SetCaptured(try_output_complete_batches(
                                    Captured, first_eof, total_cams, reference_fps))
                             /\ pcA' = IF LoopContinues(finished_cams + 1, total_cams)
                                       THEN "main_loop" ELSE "exit_loop"
                    ELSE IF IsStraggler(cam_eof_indices, packet)
                    THEN /\ UNCHANGED <<stop_flag, stop_stores, frame_buffer, finished_cams,
                                        next_batch_index, first_eof_frame_index,
                                        cam_eof_indices, output_queue, emitted, dropped, pcA>>
                    ELSE /\ SetCaptured(try_output_complete_batches(
                                [Captured EXCEPT !.frame_buffer = BufferFrame(frame_buffer, packet)],
                                first_eof_frame_index, total_cams, reference_fps))
                         /\ UNCHANGED <<stop_flag, stop_stores, finished_cams, first_eof_frame_index,
                                        cam_eof_indices, pcA>>
    /\ UNCHANGED <<workers, total_cams, reference_fps, varsR, pushed_packets,
                   varsIn, varsV, varsS, varsC, varsQ>>

\* stop_flag.store(true) after the loop
ExitMainLoop ==
    /\ pcA = "exit_loop"
    /\ stop_flag' = TRUE
    /\ stop_stores' = stop_stores + 1
    /\ pcA' = "join"
    /\ UNCHANGED <<packet_queue, workers, total_cams, reference_fps, frame_buffer,
                   finished_cams, next_batch_index, first_eof_frame_index,
                   cam_eof_indices, output_queue, varsIn, varsV, varsS, varsR, varsC, varsH, varsQ>>

\* the join loop: returns once every reader_worker has returned
JoinWorkers ==
    /\ pcA = "join"
    /\ \A w \in workers : r_pc[w] = "done"
    /\ workers' = {}
    /\ pcA' = "close_packets"
    /\ UNCHANGED <<packet_queue, stop_flag, stop_stores, total_cams, reference_fps, frame_buffer,
                   finished_cams, next_batch_index, first_eof_frame_index,
                   cam_eof_indices, output_queue, varsIn, varsV, varsS, varsR, varsC, varsH, varsQ>>

\* variant: packet_queue.close() placed before the join loop
ClosePacketQueue_BeforeJoin ==
    /\ pcA = "join"
    /\ packet_queue' = QClose(packet_queue)
    /\ pcA' = "drain"
    /\ UNCHANGED <<stop_flag, stop_stores, workers, total_cams, reference_fps, frame_buffer,
                   finished_cams, next_batch_index, first_eof_frame_index,
                   cam_eof_indices, output_queue, varsIn, varsV, varsS, varsR, varsC, varsH, varsQ>>

\* packet_queue.close() after the join loop
ClosePacketQueue ==
    /\ pcA = "close_packets"
    /\ packet_queue' = QClose(packet_queue)
    /\ pcA' = "drain"
    /\ UNCHANGED <<stop_flag, stop_stores, workers, total_cams, reference_fps, frame_buffer,
                   finished_cams, next_batch_index, first_eof_frame_index,
                   cam_eof_indices, output_queue, varsIn, varsV, varsS, varsR, varsC, varsH, varsQ>>

\* one round of the final while (true); on an absent result the last
\* try_output_complete_batches and output_queue.close()
FinalDrain ==
    /\ pcA = "drain"
    /\ QWaitDone(packet_queue)
    /\ packet_queue' = QPopQueue(packet_queue)
    /\ LET packet_opt == QPopResult(packet_queue)
       IN  IF ~packet_opt.has_value
           THEN LET st == try_output_complete_batches(
                              Captured, first_eof_frame_index, total_cams, reference_fps)
                IN  /\ SetCaptured([st EXCEPT !.output_queue = QClose(st.output_queue)])
                    /\ pcA' = "done"
           ELSE IF packet_opt.value.eof \/ IsStraggler(cam_eof_indices, packet_opt.value)
           THEN UNCHANGED <<frame_buffer, next_batch_index, output_queue, emitted, dropped, pcA>>
           ELSE /\ SetCaptured(try_output_complete_batches(
                       [Captured EXCEPT !.frame_buffer = BufferFrame(frame_buffer, packet_opt.value)],
                       first_eof_frame_index, total_cams, reference_fps))
                /\ UNCHANGED pcA
    /\ UNCHANGED <<stop_flag, stop_stores, workers, total_cams, reference_fps, finished_cams,
                   first_eof_frame_index, cam_eof_indices, pushed_packets,
                   varsIn, varsV, varsS, varsR, varsC, varsQ>>

(***************************************************************************)
(* The earlier extract_frames_parallel (part_001): the stop flag is stored *)
(* on the first terminal packet, only that packet's index is recorded as   *)
(* first_eof_frame_index, cam_eof_indices is a local of the loop body and  *)
(* so is always empty where it is tested, and the final pass skips frames  *)
(* at or after first_eof_frame_index.  Directory handling, the readers,    *)
(* try_output_complete_batches, the join and the two closes are as in the  *)
(* current version.                                                        *)
(***************************************************************************)
\* first_eof_frame_index after a terminal packet: set by the first one only
OldFirstEof(first_eof, packet) == IF first_eof < 0 THEN packet.frame_index ELSE first_eof

\* the terminal packet that finds first_eof_frame_index unset stores stop_flag
OldStopAfterEof(first_eof) == first_eof < 0

\* the skip test of the final pass
OldIsSkipped(first_eof, packet) == first_eof >= 0 /\ packet.frame_index >= first_eof

\* one round of while (finished_cams < total_cams)
OldMainLoopPop ==
    /\ pcA = "main_loop"
    /\ LoopContinues(finished_cams, total_cams)
    /\ QWaitDone(packet_queue)
    /\ packet_queue' = QPopQueue(packet_queue)
    /\ LET packet_opt == QPopResult(packet_queue)
       IN  IF ~packet_opt.has_value
           THEN /\ pcA' = IF packet_queue.closed /\ finished_cams < total_cams
                          THEN "exit_loop" ELSE "main_loop"
                /\ UNCHANGED <<stop_flag, stop_stores, frame_buffer, finished_cams, next_batch_index,
                               first_eof_frame_index, output_queue, emitted, dropped>>
           ELSE LET packet == packet_opt.value
                IN  IF packet.eof
                    THEN LET first_eof == OldFirstEof(first_eof_frame_index, packet)
                         IN  /\ finished_cams' = finished_cams + 1
                             /\ first_eof_frame_index' = first_eof
                             /\ stop_flag' = IF OldStopAfterEof(first_eof_frame_index)
                                             THEN TRUE ELSE stop_flag
                             /\ stop_stores' = IF OldStopAfterEof(first_eof_frame_index)
                                               THEN stop_stores + 1 ELSE stop_stores
                             /\ SetCaptured(try_output_complete_batches(
                                    Captured, first_eof, total_cams, reference_fps))
                             /\ pcA' = IF LoopContinues(finished_cams + 1, total_cams)
                                       THEN "main_loop" ELSE "exit_loop"
                    ELSE IF IsStraggler(EmptyMap, packet)
                    THEN /\ UNCHANGED <<stop_flag, stop_stores, frame_buffer, finished_cams,
                                        next_batch_index, first_eof_frame_index,
                                        output_queue, emitted, dropped, pcA>>
                    ELSE /\ SetCaptured(try_output_complete_batches(
                                [Captured EXCEPT !.frame_buffer = BufferFrame(frame_buffer, packet)],
                                first_eof_frame_index, total_cams, reference_fps))
                         /\ UNCHANGED <<stop_flag, stop_stores, finished_cams,
                                        first_eof_frame_index, pcA>>
    /\ UNCHANGED <<cam_eof_indices, workers, total_cams, reference_fps, varsR, pushed_packets,
                   varsIn, varsV, varsS, varsC, varsQ>>

\* one round of the final while (true); on an absent result the last
\* try_output_complete_batches and output_queue.close()
OldFinalDrain ==
    /\ pcA = "drain"
    /\ QWaitDone(packet_queue)
    /\ packet_queue' = QPopQueue(packet_queue)
    /\ LET packet_opt == QPopResult(packet_queue)
       IN  IF ~packet_opt.has_value
           THEN LET st == try_output_complete_batches(
                              Captured, first_eof_frame_index, total_cams, reference_fps)
                IN  /\ SetCaptured([st EXCEPT !.output_queue = QClose(st.output_queue)])
                    /\ pcA' = "done"
           ELSE IF packet_opt.value.eof \/ OldIsSkipped(first_eof_frame_index, packet_opt.value)
           THEN UNCHANGED <<frame_buffer, next_batch_index, output_queue, emitted, dropped, pcA>>
           ELSE /\ SetCaptured(try_output_complete_batches(
                       [Captured EXCEPT !.frame_buffer = BufferFrame(frame_buffer, packet_opt.value)],
                       first_eof_frame_index, total_cams, reference_fps))
                /\ UNCHANGED pcA
    /\ UNCHANGED <<stop_flag, stop_stores, workers, total_cams, reference_fps, finished_cams,
                   first_eof_frame_index, cam_eof_indices, pushed_packets,
                   varsIn, varsV, varsS, varsR, varsC, varsQ>>

(***************************************************************************)
(* The consumer: while (auto batch_opt = queue.pop()) of main, entered     *)
(* once the extractor has returned.                                        *)
(***************************************************************************)
ConsumerPop ==
    /\ pcA = "done"
    /\ pcC = "pop"
    /\ QWaitDone(output_queue)
    /\ output_queue' = QPopQueue(output_queue)
    /\ LET batch_opt == QPopResult(output_queue)
       IN  IF batch_opt.has_value
           THEN /\ consumed' = Append(consumed, batch_opt.value)
                /\ batch_count' = batch_count + 1
                /\ UNCHANGED pcC
           ELSE /\ pcC' = "done"
                /\ UNCHANGED <<consumed, batch_count>>
    /\ UNCHANGED <<pcA, packet_queue, stop_flag, stop_stores, workers, total_cams, reference_fps,
                   frame_buffer, finished_cams, next_batch_index, first_eof_frame_index,
                   cam_eof_indices, varsIn, varsV, varsS, varsR, varsH, varsQ>>


(***************************************************************************)
(* BlockingQueue<int> driven by the threads of QThreads, each of which may *)
(* call push, pop or close whenever it is idle.  A block run under mutex_  *)
(* is one step; the notify that follows it is a step of its own.           *)
(*   idle         : outside the queue                                      *)
(*   push_notify  : push has left its locked block, notify_one is next     *)
(*   close_notify : close has left its locked block, notify_all is next    *)
(*   waiting      : pop is blocked in cv_.wait                             *)
(*   woken        : pop was woken and is to re-test the predicate          *)
(* q_last records the last locked block that ran: the queue before and     *)
(* after it and, for pop, whether it returned and what.                    *)
(***************************************************************************)
\* a thread that has not returned from any pop yet
NoResult == [pending |-> TRUE]

NoCall == [op |-> "none"]

Call(op, t, arg, before, after, returned, result) ==
    [op |-> op, thread |-> t, arg |-> arg, before |-> before, after |-> after,
     returned |-> returned, result |-> result]

QPushCall(t) ==
    /\ q_pc[t] = "idle"
    /\ q_next <= MaxPush
    /\ bq' = QPush(bq, q_next)
    /\ q_next' = q_next + 1
    /\ q_accepted' = IF bq.closed THEN q_accepted ELSE Append(q_accepted, q_next)
    /\ q_pc' = [q_pc EXCEPT ![t] = IF bq.closed THEN "idle" ELSE "push_notify"]
    /\ q_last' = Call("push", t, q_next, bq, bq', TRUE, nullopt)
    /\ q_owner' = MapPut(q_owner, q_next, t)
    /\ UNCHANGED <<q_result, q_waiters, q_returned, varsIn, varsV, varsS, varsA, varsR, varsC, varsH>>

\* cv_.notify_one(): wakes one waiter when there is one
QPushNotify(t) ==
    /\ q_pc[t] = "push_notify"
    /\ IF q_waiters = {}
       THEN /\ q_pc' = [q_pc EXCEPT ![t] = "idle"]
            /\ UNCHANGED q_waiters
       ELSE \E w \in q_waiters :
              /\ q_waiters' = q_waiters \ {w}
              /\ q_pc' = [q_pc EXCEPT ![t] = "idle", ![w] = "woken"]
    /\ UNCHANGED <<bq, q_result, q_next, q_accepted, q_returned, q_last, q_owner,
                   varsIn, varsV, varsS, varsA, varsR, varsC, varsH>>

\* pop from the lock on: returns at once when the predicate holds, else waits
QPopCall(t) ==
    /\ q_pc[t] = "idle"
    /\ IF QWaitDone(bq)
       THEN /\ bq' = QPopQueue(bq)
            /\ q_result' = [q_result EXCEPT ![t] = QPopResult(bq)]
            /\ q_returned' = IF QPopResult(bq).has_value
                             THEN Append(q_returned, QPopResult(bq).value) ELSE q_returned
            /\ q_last' = Call("pop", t, 0, bq, bq', TRUE, QPopResult(bq))
            /\ UNCHANGED <<q_pc, q_waiters>>
       ELSE /\ q_waiters' = q_waiters \cup {t}
            /\ q_pc' = [q_pc EXCEPT ![t] = "waiting"]
            /\ q_last' = Call("pop", t, 0, bq, bq, FALSE, nullopt)
            /\ UNCHANGED <<bq, q_result, q_returned>>
    /\ UNCHANGED <<q_next, q_accepted, q_owner, varsIn, varsV, varsS, varsA, varsR, varsC, varsH>>

\* std::condition_variable::wait may wake without a notify
QSpuriousWake(t) ==
    /\ q_pc[t] = "waiting"
    /\ t \in q_waiters
    /\ q_waiters' = q_waiters \ {t}
    /\ q_pc' = [q_pc EXCEPT ![t] = "woken"]
    /\ UNCHANGED <<bq, q_result, q_next, q_accepted, q_returned, q_last, q_owner,
                   varsIn, varsV, varsS, varsA, varsR, varsC, varsH>>

\* a woken pop takes the lock again and re-tests the predicate
QPopWake(t) ==
    /\ q_pc[t] = "woken"
    /\ IF QWaitDone(bq)
       THEN /\ bq' = QPopQueue(bq)
            /\ q_result' = [q_result EXCEPT ![t] = QPopResult(bq)]
            /\ q_returned' = IF QPopResult(bq).has_value
                             THEN Append(q_returned, QPopResult(bq).value) ELSE q_returned
            /\ q_pc' = [q_pc EXCEPT ![t] = "idle"]
            /\ q_last' = Call("pop", t, 0, bq, bq', TRUE, QPopResult(bq))
            /\ UNCHANGED q_waiters
       ELSE /\ q_waiters' = q_waiters \cup {t}
            /\ q_pc' = [q_pc EXCEPT ![t] = "waiting"]
            /\ q_last' = Call("pop", t, 0, bq, bq, FALSE, nullopt)
            /\ UNCHANGED <<bq, q_result, q_returned>>
    /\ UNCHANGED <<q_next, q_accepted, q_owner, varsIn, varsV, varsS, varsA, varsR, varsC, varsH>>

QCloseCall(t) ==
    /\ q_pc[t] = "idle"
    /\ bq' = QClose(bq)
    /\ q_pc' = [q_pc EXCEPT ![t] = "close_notify"]
    /\ q_last' = Call("close", t, 0, bq, bq', TRUE, nullopt)
    /\ UNCHANGED <<q_result, q_waiters, q_next, q_accepted, q_returned, q_owner,
                   varsIn, varsV, varsS, varsA, varsR, varsC, varsH>>

\* variant: close() calls cv_.notify_one()
QCloseNotify_One(t) ==
    /\ q_pc[t] = "close_notify"
    /\ IF q_waiters = {}
       THEN /\ q_pc' = [q_pc EXCEPT ![t] = "idle"]
            /\ UNCHANGED q_waiters
       ELSE \E w \in q_waiters :
              /\ q_waiters' = q_waiters \ {w}
              /\ q_pc' = [q_pc EXCEPT ![t] = "idle", ![w] = "woken"]
    /\ UNCHANGED <<bq, q_result, q_next, q_accepted, q_returned, q_last, q_owner,
                   varsIn, varsV, varsS, varsA, varsR, varsC, varsH>>

\* cv_.notify_all()
QCloseNotify(t) ==
    /\ q_pc[t] = "close_notify"
    /\ q_pc' = [x \in QThreads |-> IF x = t THEN "idle"
                                   ELSE IF x \in q_waiters THEN "woken" ELSE q_pc[x]]
    /\ q_waiters' = {}
    /\ UNCHANGED <<bq, q_result, q_next, q_accepted, q_returned, q_last, q_owner,
                   varsIn, varsV, varsS, varsA, varsR, varsC, varsH>>

(***************************************************************************)
(* VideoTaskManager and video_read_thread.  A task is named by its source  *)
(* (its position in the vector; save_path goes with it); `outcome` says    *)
(* what the worker meets when it opens the source and the writer.          *)
(*   get     : about to call get_task                                      *)
(*   waiting : blocked in cv_.wait of get_task                             *)
(*   woken   : woken, to re-test the predicate                             *)
(*   work    : holds a task, about to open, copy and set its flags         *)
(*   finish  : about to call finish_task                                   *)
(*   done    : get_task returned no task, the thread has returned          *)
(***************************************************************************)
Outcomes == {"ok", "no_capture", "no_writer"}

\* cam ids of n tasks: 0 first, each next id equal or one higher
TaskIdLists(n) ==
    { ids \in [1 .. n -> 0 .. MaxTasks] :
        /\ n > 0 => ids[1] = 0
        /\ \A i \in 1 .. n : i > 1 => ids[i] \in {ids[i - 1], ids[i - 1] + 1} }

\* struct VideoReadTask
VideoReadTask(src, cam, outcome) ==
    [src |-> src, cam_id |-> cam, outcome |-> outcome,
     is_completed |-> FALSE, is_failed |-> FALSE]

TaskLists ==
    UNION { { [i \in 1 .. n |-> VideoReadTask(i, t[1][i], t[2][i])] :
                t \in TaskIdLists(n) \X [1 .. n -> Outcomes] } : n \in 0 .. MaxTasks }

\* variant: the predicate without exit_flag_
TaskWaitDone_IgnoresExit(queue, exit) == queue # <<>>

\* get_task: the predicate of cv_.wait
TaskWaitDone(queue, exit) == queue # <<>> \/ exit

\* variant: exit_flag_ alone ends the thread
GetTaskResult_ExitFirst(queue, exit) ==
    IF exit \/ queue = <<>> THEN nullopt ELSE Some(Head(queue))

\* get_task: what is returned once the wait is over
GetTaskResult(queue, exit) ==
    IF exit /\ queue = <<>> THEN nullopt ELSE Some(Head(queue))

\* variant: front() without pop()
TaskQueueAfter_Keeps(queue, exit) == queue

\* get_task: the queue it leaves
TaskQueueAfter(queue, exit) ==
    IF exit /\ queue = <<>> THEN queue ELSE Tail(queue)

\* the critical section of get_task, entered from the call or after a wake-up
GetTaskLocked(w) ==
    IF TaskWaitDone(task_queue_, exit_flag_)
    THEN LET opt_task == GetTaskResult(task_queue_, exit_flag_)
         IN  /\ task_queue_' = TaskQueueAfter(task_queue_, exit_flag_)
             /\ v_last' = [thread |-> w, queue |-> task_queue_, exit |-> exit_flag_,
                           returned |-> TRUE, result |-> opt_task]
             /\ IF opt_task.has_value
                THEN /\ v_task' = [v_task EXCEPT ![w] = opt_task.value]
                     /\ handed' = Append(handed, <<w, opt_task.value.src>>)
                     /\ v_pc' = [v_pc EXCEPT ![w] = "work"]
                ELSE /\ v_pc' = [v_pc EXCEPT ![w] = "done"]
                     /\ UNCHANGED <<v_task, handed>>
             /\ UNCHANGED v_waiters
    ELSE /\ v_waiters' = v_waiters \cup {w}
         /\ v_pc' = [v_pc EXCEPT ![w] = "waiting"]
         /\ v_last' = [thread |-> w, queue |-> task_queue_, exit |-> exit_flag_,
                       returned |-> FALSE, result |-> nullopt]
         /\ UNCHANGED <<task_queue_, v_task, handed>>

GetTask(w) ==
    /\ v_pc[w] = "get"
    /\ GetTaskLocked(w)
    /\ UNCHANGED <<tasks, completed_tasks_, exit_flag_, completed_count_, total_tasks_,
                   m_pc, all_ok, finish_calls,
                   varsIn, varsS, varsA, varsR, varsC, varsH, varsQ>>

\* std::condition_variable::wait may wake without a notify
GetTaskSpuriousWake(w) ==
    /\ v_pc[w] = "waiting"
    /\ w \in v_waiters
    /\ v_waiters' = v_waiters \ {w}
    /\ v_pc' = [v_pc EXCEPT ![w] = "woken"]
    /\ UNCHANGED <<tasks, task_queue_, completed_tasks_, exit_flag_, completed_count_,
                   total_tasks_, v_task, m_pc, all_ok, handed, finish_calls, v_last,
                   varsIn, varsS, varsA, varsR, varsC, varsH, varsQ>>

GetTaskWake(w) ==
    /\ v_pc[w] = "woken"
    /\ GetTaskLocked(w)
    /\ UNCHANGED <<tasks, completed_tasks_, exit_flag_, completed_count_, total_tasks_,
                   m_pc, all_ok, finish_calls,
                   varsIn, varsS, varsA, varsR, varsC, varsH, varsQ>>

\* the body of the loop between get_task and finish_task: the flags it sets
Processed(task) ==
    IF task.outcome = "ok"
    THEN [task EXCEPT !.is_completed = TRUE]
    ELSE [task EXCEPT !.is_failed = TRUE]

ProcessTask(w) ==
    /\ v_pc[w] = "work"
    /\ v_task' = [v_task EXCEPT ![w] = Processed(@)]
    /\ v_pc' = [v_pc EXCEPT ![w] = "finish"]
    /\ UNCHANGED <<tasks, task_queue_, completed_tasks_, exit_flag_, completed_count_,
                   total_tasks_, v_waiters, m_pc, all_ok, handed, finish_calls, v_last,
                   varsIn, varsS, varsA, varsR, varsC, varsH, varsQ>>

\* variant: completed_count_ is not incremented for a failed task
CountAfterFinish_SkipsFailed(count, task) == IF task.is_failed THEN count ELSE count + 1

\* finish_task: completed_count_++
CountAfterFinish(count, task) == count + 1

FinishTask(w) ==
    /\ v_pc[w] = "finish"
    /\ completed_tasks_' = MapPut(completed_tasks_, v_task[w].cam_id, v_task[w])
    /\ completed_count_' = CountAfterFinish(completed_count_, v_task[w])
    /\ finish_calls' = Append(finish_calls, v_task[w].src)
    /\ v_pc' = [v_pc EXCEPT ![w] = "get"]
    /\ UNCHANGED <<tasks, task_queue_, exit_flag_, total_tasks_, v_task, v_waiters,
                   m_pc, all_ok, handed, v_last,
                   varsIn, varsS, varsA, varsR, varsC, varsH, varsQ>>

all_tasks_completed == completed_count_ = total_tasks_

\* main: while (!all_tasks_completed()) sleep; left once the test is true
MainPoll ==
    /\ m_pc = "poll"
    /\ all_tasks_completed
    /\ m_pc' = "exit"
    /\ UNCHANGED <<tasks, task_queue_, completed_tasks_, exit_flag_, completed_count_,
                   total_tasks_, v_pc, v_task, v_waiters, all_ok, handed, finish_calls, v_last,
                   varsIn, varsS, varsA, varsR, varsC, varsH, varsQ>>

\* a caller that does not wait for the tasks before it calls trigger_exit
ExitRequested ==
    /\ m_pc = "poll"
    /\ ~all_tasks_completed
    /\ m_pc' = "exit"
    /\ UNCHANGED <<tasks, task_queue_, completed_tasks_, exit_flag_, completed_count_,
                   total_tasks_, v_pc, v_task, v_waiters, all_ok, handed, finish_calls, v_last,
                   varsIn, varsS, varsA, varsR, varsC, varsH, varsQ>>

\* trigger_exit: exit_flag_ = true and notify_all, both under the lock
TriggerExit ==
    /\ m_pc = "exit"
    /\ exit_flag_' = TRUE
    /\ v_pc' = [w \in VThreads |-> IF w \in v_waiters THEN "woken" ELSE v_pc[w]]
    /\ v_waiters' = {}
    /\ m_pc' = "join"
    /\ UNCHANGED <<tasks, task_queue_, completed_tasks_, completed_count_, total_tasks_,
                   v_task, all_ok, handed, finish_calls, v_last,
                   varsIn, varsS, varsA, varsR, varsC, varsH, varsQ>>

\* the join loop
MainJoin ==
    /\ m_pc = "join"
    /\ \A w \in VThreads : v_pc[w] = "done"
    /\ m_pc' = "verify"
    /\ UNCHANGED <<tasks, task_queue_, completed_tasks_, exit_flag_, completed_count_,
                   total_tasks_, v_pc, v_task, v_waiters, all_ok, handed, finish_calls, v_last,
                   varsIn, varsS, varsA, varsR, varsC, varsH, varsQ>>

\* the checks on get_completed_tasks() that decide the exit status
MainVerify ==
    /\ m_pc = "verify"
    /\ all_ok' =
          /\ \A c \in DOMAIN completed_tasks_ :
                 ~completed_tasks_[c].is_failed /\ completed_tasks_[c].is_completed
          /\ Cardinality(DOMAIN completed_tasks_) = Len(tasks)
    /\ m_pc' = "done"
    /\ UNCHANGED <<tasks, task_queue_, completed_tasks_, exit_flag_, completed_count_,
                   total_tasks_, v_pc, v_task, v_waiters, handed, finish_calls, v_last,
                   varsIn, varsS, varsA, varsR, varsC, varsH, varsQ>>

\* the state the constructor and the thread starts of main leave
InitTaskManager(given) ==
    /\ tasks = given
    /\ task_queue_ = given
    /\ completed_tasks_ = EmptyMap
    /\ exit_flag_ = FALSE
    /\ completed_count_ = 0
    /\ total_tasks_ = Len(given)
    /\ v_pc = [w \in VThreads |-> "get"]
    /\ v_task = [w \in VThreads |-> VideoReadTask(0, 0, "ok")]
    /\ v_waiters = {}
    /\ m_pc = "poll"
    /\ all_ok = FALSE
    /\ handed = <<>>
    /\ finish_calls = <<>>
    /\ v_last = [thread |-> 0, queue |-> <<>>, exit |-> FALSE,
                 returned |-> FALSE, result |-> nullopt]

(***************************************************************************)
(* Specifications                                                          *)
(***************************************************************************)
InitQueueDriver ==
    /\ bq = NewQueue
    /\ q_pc = [t \in QThreads |-> "idle"]
    /\ q_result = [t \in QThreads |-> NoResult]
    /\ q_waiters = {}
    /\ q_next = 1
    /\ q_accepted = <<>>
    /\ q_returned = <<>>
    /\ q_last = NoCall
    /\ q_owner = EmptyMap

InitExtractors ==
    /\ s_streams = <<>>
    /\ s_pos = <<>>
    /\ s_frame_index = 0
    /\ single_queue = NewQueue
    /\ pcA = "call"
    /\ packet_queue = NewQueue
    /\ stop_flag = FALSE
    /\ stop_stores = 0
    /\ workers = {}
    /\ total_cams = 0
    /\ reference_fps = 0
    /\ frame_buffer = EmptyMap
    /\ finished_cams = 0
    /\ next_batch_index = 0
    /\ first_eof_frame_index = -1
    /\ cam_eof_indices = EmptyMap
    /\ output_queue = NewQueue
    /\ r_pc = <<>>
    /\ r_stream = <<>>
    /\ r_pos = <<>>
    /\ r_frame = <<>>
    /\ r_frame_index = <<>>
    /\ pcC = "pop"
    /\ batch_count = 0
    /\ consumed = <<>>
    /\ pushed_packets = <<>>
    /\ emitted = <<>>
    /\ dropped = 0

Init ==
    /\ input_dir \in Directories
    /\ pcS = "call"
    /\ InitExtractors
    /\ InitQueueDriver
    /\ InitTaskManager(<<>>)

Next ==
    \/ SingleCall
    \/ SingleRound
    \/ ParallelCall
    \/ \E w \in workers : ReaderCheck(w)
    \/ \E w \in workers : ReaderPush(w)
    \/ \E w \in workers : ReaderEof(w)
    \/ MainLoopPop
    \/ ExitMainLoop
    \/ JoinWorkers
    \/ ClosePacketQueue
    \/ FinalDrain
    \/ ConsumerPop

Spec == Init /\ [][Next]_vars

\* every thread that can take a step eventually takes one
Fairness ==
    /\ WF_vars(SingleCall \/ SingleRound)
    /\ WF_vars(ParallelCall \/ MainLoopPop \/ ExitMainLoop \/ JoinWorkers
               \/ ClosePacketQueue \/ FinalDrain)
    /\ \A w \in 1 .. MaxStreams :
           WF_vars(ReaderCheck(w) \/ ReaderPush(w) \/ ReaderEof(w))
    /\ WF_vars(ConsumerPop)

FairSpec == Spec /\ Fairness

(***************************************************************************)
(* SpecW: reader_worker on its own.  The threads are started as            *)
(* extract_frames_parallel starts them; nothing pops the packet queue, and *)
(* the stop flag is stored at an arbitrary moment by the environment, so   *)
(* that a reader may leave its loop for any of its three reasons.          *)
(***************************************************************************)
StopRequested ==
    /\ pcA = "main_loop"
    /\ ~stop_flag
    /\ stop_flag' = TRUE
    /\ stop_stores' = stop_stores + 1
    /\ UNCHANGED <<pcA, packet_queue, workers, total_cams, reference_fps, frame_buffer,
                   finished_cams, next_batch_index, first_eof_frame_index,
                   cam_eof_indices, output_queue, varsIn, varsV, varsS, varsR, varsC, varsH, varsQ>>

InitW ==
    /\ input_dir \in Directories
    /\ pcS = "done"
    /\ InitExtractors
    /\ InitQueueDriver
    /\ InitTaskManager(<<>>)

NextW ==
    \/ ParallelCall
    \/ StopRequested
    \/ \E w \in workers : ReaderCheck(w)
    \/ \E w \in workers : ReaderPush(w)
    \/ \E w \in workers : ReaderEof(w)

SpecW == InitW /\ [][NextW]_vars

(***************************************************************************)
(* SpecT: extract_frames_parallel on directories of the regular layout     *)
(* (every file opens, camera ids 0, 1, ...) in which any of the files may  *)
(* report CAP_PROP_FPS 0, with one more packet than in Spec so that two    *)
(* cameras give batches of index 0 and 1.                                  *)
(***************************************************************************)
RatedFiles(n) ==
    { [i \in 1 .. n |-> [cam_id |-> i - 1, opened |-> TRUE, len |-> t[1][i],
                         fps |-> IF i \in t[2] THEN 0 ELSE Rate(i)]] :
        t \in { lens \in [1 .. n -> 0 .. (MaxPackets + 1)] : n + SumLen(lens) <= MaxPackets + 1 }
              \X (SUBSET (1 .. n)) }

RatedDirectories ==
    { [exists |-> TRUE, entries |-> e] : e \in UNION { RatedFiles(n) : n \in 1 .. MaxStreams } }

InitT ==
    /\ input_dir \in RatedDirectories
    /\ pcS = "done"
    /\ InitExtractors
    /\ InitQueueDriver
    /\ InitTaskManager(<<>>)

NextT ==
    \/ ParallelCall
    \/ \E w \in workers : ReaderCheck(w)
    \/ \E w \in workers : ReaderPush(w)
    \/ \E w \in workers : ReaderEof(w)
    \/ MainLoopPop
    \/ ExitMainLoop
    \/ JoinWorkers
    \/ ClosePacketQueue
    \/ FinalDrain

SpecT == InitT /\ [][NextT]_vars

(***************************************************************************)
(* SpecV: a VideoTaskManager with its worker threads and the main thread   *)
(* of minimal_video_read_test.cpp, which calls trigger_exit once all tasks *)
(* are completed; a caller may also call it before that.                   *)
(***************************************************************************)
InitV ==
    /\ input_dir = [exists |-> FALSE, entries |-> <<>>]
    /\ pcS = "call"
    /\ InitExtractors
    /\ InitQueueDriver
    /\ \E given \in TaskLists : InitTaskManager(given)

NextV ==
    \/ \E w \in VThreads : GetTask(w)
    \/ \E w \in VThreads : GetTaskSpuriousWake(w)
    \/ \E w \in VThreads : GetTaskWake(w)
    \/ \E w \in VThreads : ProcessTask(w)
    \/ \E w \in VThreads : FinishTask(w)
    \/ MainPoll
    \/ ExitRequested
    \/ TriggerExit
    \/ MainJoin
    \/ MainVerify

SpecV == InitV /\ [][NextV]_vars

\* every worker and the main thread, when it can step, eventually steps; a
\* wake-up without notify and an early trigger_exit are possible, not owed
FairnessV ==
    /\ \A w \in VThreads :
           WF_vars(GetTask(w) \/ GetTaskWake(w) \/ ProcessTask(w) \/ FinishTask(w))
    /\ WF_vars(MainPoll \/ TriggerExit \/ MainJoin \/ MainVerify)

FairSpecV == SpecV /\ FairnessV

InitQ ==
    /\ input_dir = [exists |-> FALSE, entries |-> <<>>]
    /\ pcS = "call"
    /\ InitExtractors
    /\ InitQueueDriver
    /\ InitTaskManager(<<>>)

NextQ ==
    \/ \E t \in QThreads : QPushCall(t)
    \/ \E t \in QThreads : QPushNotify(t)
    \/ \E t \in QThreads : QPopCall(t)
    \/ \E t \in QThreads : QSpuriousWake(t)
    \/ \E t \in QThreads : QPopWake(t)
    \/ \E t \in QThreads : QCloseCall(t)
    \/ \E t \in QThreads : QCloseNotify(t)

SpecQ == InitQ /\ [][NextQ]_vars


(***************************************************************************)
(* SpecO: the earlier extract_frames_parallel of part_001 with its readers *)
(***************************************************************************)
InitO ==
    /\ input_dir \in Directories
    /\ pcS = "done"
    /\ InitExtractors
    /\ InitQueueDriver
    /\ InitTaskManager(<<>>)

NextO ==
    \/ ParallelCall
    \/ \E w \in workers : ReaderCheck(w)
    \/ \E w \in workers : ReaderPush(w)
    \/ \E w \in workers : ReaderEof(w)
    \/ OldMainLoopPop
    \/ ExitMainLoop
    \/ JoinWorkers
    \/ ClosePacketQueue
    \/ OldFinalDrain

SpecO == InitO /\ [][NextO]_vars

\* a thread inside push, close or a woken pop goes on running; whether a
\* thread calls the queue at all, and spurious wakeups, are not forced
FairnessQ ==
    \A t \in QThreads :
        /\ WF_vars(QPushNotify(t))
        /\ WF_vars(QCloseNotify(t))
        /\ WF_vars(QPopWake(t))

FairSpecQ == SpecQ /\ FairnessQ

(***************************************************************************)
(* Vocabulary of the properties                                            *)
(***************************************************************************)
\* reader threads were started by extract_frames_parallel
Started == total_cams > 0

Readers == DOMAIN r_stream

UniqueCamIds == \A v, w \in Readers : v # w => r_stream[v].cam_id # r_stream[w].cam_id

CameraSet == { r_stream[w].cam_id : w \in Readers }

\* the reader that owns camera c (ids unique)
ReaderOf(c) == CHOOSE w \in Readers : r_stream[w].cam_id = c

MinOf(S) == CHOOSE m \in S : \A x \in S : m <= x

\* frames a reader has read successfully from its capture
FramesRead(w) == r_pos[w]

Returned == pcA = "done"

(***************************************************************************)
(* C1: with at least one opened stream and unique camera ids, the batches  *)
(* pushed to the output queue carry the indices 0, 1, 2, ... in this order *)
(* with none skipped or repeated; there are never more of them than frames *)
(* read from any camera, and when extract_frames_parallel returns there    *)
(* are exactly M, the least number of frames any reader read before its    *)
(* terminal packet (no batch when some camera yields no frame).            *)
(***************************************************************************)
C1_ContiguousIndices ==
    (Started /\ UniqueCamIds) =>
        /\ \A k \in 1 .. Len(emitted) : emitted[k].frame_index = k - 1
        /\ \A w \in Readers : Len(emitted) <= FramesRead(w)
        /\ Returned => Len(emitted) = MinOf({ FramesRead(w) : w \in Readers })
        /\ Returned => \A w \in Readers : r_pc[w] = "done"

\* two cameras of different length: one batch out, the longer camera read two frames
C1_Witness ==
    /\ Returned /\ UniqueCamIds /\ total_cams = 2
    /\ Len(emitted) = 1
    /\ \E w \in Readers : FramesRead(w) = 2

\* a single camera of three frames: three batches
C1_WitnessLong ==
    Returned /\ total_cams = 1 /\ Len(emitted) = 3

(***************************************************************************)
(* C2: with unique camera ids, in every pushed batch the payload under     *)
(* camera id c in the batch of index k is frame k of the file camera c's   *)
(* reader reads.                                                           *)
(***************************************************************************)
C2_PayloadOfOwnCamera ==
    (Started /\ UniqueCamIds) =>
        \A k \in 1 .. Len(emitted) :
            \A c \in DOMAIN emitted[k].frames :
                /\ c \in CameraSet
                /\ emitted[k].frames[c] =
                       Frame(r_stream[ReaderOf(c)].path, emitted[k].frame_index)

\* a batch was pushed after a packet of a later index of another camera was popped first
C2_Witness ==
    /\ UniqueCamIds /\ total_cams = 2
    /\ Len(emitted) = 1
    /\ 1 \in DOMAIN frame_buffer

(***************************************************************************)
(* C3: every pushed batch holds exactly one entry per started camera.      *)
(***************************************************************************)
C3_FullCameraSet ==
    \A k \in 1 .. Len(emitted) :
        /\ DOMAIN emitted[k].frames = CameraSet
        /\ Cardinality(DOMAIN emitted[k].frames) = total_cams

C3_Witness ==
    /\ total_cams = 2 /\ Len(emitted) = 1
    /\ DOMAIN emitted[1].frames = {0, 1}

(***************************************************************************)
(* C4: the batches a run pushes are a function of the streams alone: for   *)
(* a given directory every run, whatever its interleaving, has pushed on   *)
(* return the same sequence of batches (index, payloads, timestamp), and   *)
(* at every moment a prefix of it.                                         *)
(***************************************************************************)
\* the one sequence of batches a directory leads to
BatchesOf(dir) ==
    LET opened == IF dir.exists THEN OpenedStreams(dir, 1) ELSE <<>>
        ids == { opened[i].cam_id : i \in DOMAIN opened }
        fileOf(c) == CHOOSE i \in DOMAIN opened : opened[i].cam_id = c
        rated == { c \in ids : opened[fileOf(c)].fps > 0 }
        ref == IF rated = {} THEN 0 ELSE opened[fileOf(MinOf(rated))].fps
        count == IF opened = <<>> \/ Cardinality(ids) # Len(opened) THEN 0
                 ELSE MinOf({ opened[i].len : i \in DOMAIN opened })
    IN  [k \in 1 .. count |->
            [frame_index |-> k - 1,
             timestamp |-> IF ref > 0 THEN Fraction(k - 1, ref) ELSE <<0, 1>>,
             frames |-> [c \in ids |-> <<opened[fileOf(c)].path, k - 1>>]]]

IsPrefix(s, t) == Len(s) <= Len(t) /\ \A k \in 1 .. Len(s) : s[k] = t[k]

C4_SameBatchesEveryRun ==
    /\ IsPrefix(emitted, BatchesOf(input_dir))
    /\ Returned => emitted = BatchesOf(input_dir)

\* a finished run of two cameras with a known rate that pushed a batch while a
\* reader was still reading
C4_Witness ==
    /\ Returned /\ total_cams = 2 /\ reference_fps > 0
    /\ Len(emitted) = 1
    /\ emitted[1].timestamp = <<0, 1>>
    /\ \E w \in Readers : FramesRead(w) > 1

(***************************************************************************)
(* C5: with unique camera ids, when both extractors have returned on the   *)
(* same directory they have pushed the same batches (index and camera-to-  *)
(* frame mapping, batch by batch) and both have closed their output queue. *)
(***************************************************************************)
IndexAndFrames(batches) ==
    [k \in DOMAIN batches |-> <<batches[k].frame_index, batches[k].frames>>]

C5_SameAsSingle ==
    (Returned /\ pcS = "done" /\ UniqueCamIds) =>
        /\ IndexAndFrames(emitted) = IndexAndFrames(single_queue.queue)
        /\ single_queue.closed
        /\ output_queue.closed

\* both returned after pushing a batch of two cameras; the single-threaded one
\* stopped at the failing read of the shorter second camera
C5_Witness ==
    /\ Returned /\ pcS = "done" /\ UniqueCamIds /\ total_cams = 2
    /\ Len(single_queue.queue) = 1 /\ Len(emitted) = 1
    /\ s_pos = <<2, 1>>

(***************************************************************************)
(* C6: when every thread that can step eventually steps (sources are       *)
(* finite, every read returns), extract_frames_parallel returns with all   *)
(* readers joined and the output queue closed, and the consumer that pops  *)
(* until an absent result ends, having received every pushed batch once,   *)
(* in push order.                                                          *)
(***************************************************************************)
ConsumerDone ==
    /\ pcC = "done"
    /\ Returned
    /\ workers = {}
    /\ \A w \in Readers : r_pc[w] = "done"
    /\ output_queue.closed
    /\ consumed = emitted
    /\ batch_count = Len(emitted)

C6_ConsumerTerminates == <>ConsumerDone /\ [](pcC = "done" => ConsumerDone)

\* the consumer ended after receiving a batch of two cameras
C6_Witness ==
    /\ pcC = "done" /\ total_cams = 2
    /\ Len(consumed) = 1 /\ consumed = emitted

(***************************************************************************)
(* C7: what a reader_worker hands to push is, in order, one non-terminal   *)
(* packet per frame it read, with frame_index 0, 1, ..., n - 1 and that    *)
(* frame as payload, followed once it has returned by exactly one terminal *)
(* packet (eof, no payload) of frame_index n; nothing follows the terminal *)
(* packet.  This holds whether the loop ended on the stop flag or on a     *)
(* read that failed.                                                       *)
(***************************************************************************)
C7_ReaderPacketSequence ==
    \A w \in Readers :
        LET s == pushed_packets[w]
        IN  /\ \A k \in 1 .. Len(s) :
                  /\ s[k].cam_id = r_stream[w].cam_id
                  /\ s[k].frame_index = k - 1
                  /\ s[k].eof => (k = Len(s) /\ r_pc[w] = "done" /\ s[k].frame = EmptyMat)
                  /\ ~s[k].eof => s[k].frame = Frame(r_stream[w].path, k - 1)
            /\ r_pc[w] = "done" => (Len(s) = FramesRead(w) + 1 /\ s[Len(s)].eof)
            /\ r_pc[w] = "push" => Len(s) = FramesRead(w) - 1
            /\ r_pc[w] \in {"check", "eof"} => Len(s) = FramesRead(w)

\* a reader stopped by the flag with frames left in its file, after two frames
C7_Witness ==
    \E w \in Readers :
        /\ r_pc[w] = "done"
        /\ FramesRead(w) = 2 /\ FramesRead(w) < r_stream[w].len
        /\ Len(pushed_packets[w]) = 3

\* a reader whose read failed
C7_WitnessExhausted ==
    \E w \in Readers :
        /\ r_pc[w] = "done" /\ ~stop_flag
        /\ FramesRead(w) = 2 /\ FramesRead(w) = r_stream[w].len

(***************************************************************************)
(* C8: a push that finds the queue closed leaves the queue as it was       *)
(* (nothing enqueued, still closed) and returns at once; a push that finds *)
(* it open appends its value at the tail.                                  *)
(***************************************************************************)
C8_PushFrame ==
    q_last.op = "push" =>
        IF q_last.before.closed
        THEN /\ q_last.after = q_last.before
             /\ q_pc[q_last.thread] = "idle"
        ELSE /\ q_last.after.queue = Append(q_last.before.queue, q_last.arg)
             /\ ~q_last.after.closed

\* a push met a closed queue that still held an item
C8_Witness ==
    /\ q_last.op = "push"
    /\ q_last.before.closed
    /\ q_last.before.queue # <<>>

(***************************************************************************)
(* C9: pop returns an absent result only from a closed queue that holds no *)
(* item; on an open empty queue the caller does not return (it waits, and  *)
(* waits again when woken); on a queue that holds an item pop returns the  *)
(* head and removes it, closed or not.                                     *)
(***************************************************************************)
C9_PopResult ==
    q_last.op = "pop" =>
        /\ (q_last.returned /\ q_last.result = nullopt) =>
               (q_last.before.closed /\ q_last.before.queue = <<>>)
        /\ (~q_last.before.closed /\ q_last.before.queue = <<>>) =>
               /\ ~q_last.returned
               /\ q_last.after = q_last.before
               /\ q_pc[q_last.thread] \in {"waiting", "woken"}
        /\ q_last.before.queue # <<>> =>
               /\ q_last.returned
               /\ q_last.result = Some(Head(q_last.before.queue))
               /\ q_last.after.queue = Tail(q_last.before.queue)
               /\ q_last.after.closed = q_last.before.closed

\* a pop took the head of a closed queue
C9_Witness ==
    /\ q_last.op = "pop"
    /\ q_last.before.closed
    /\ q_last.before.queue # <<>>
    /\ q_last.returned

\* a woken pop found the queue open and empty and went back to waiting
C9_WitnessBlocked ==
    /\ q_last.op = "pop"
    /\ ~q_last.returned
    /\ q_accepted # <<>>

(***************************************************************************)
(* C10: close keeps what is queued: the items accepted before it are still *)
(* returned by pop, in the order they were accepted, and no pop returns an *)
(* absent result before all of them were returned; on a closed empty queue *)
(* pop returns absent without waiting; a second close changes nothing.     *)
(***************************************************************************)
C10_CloseDrains ==
    /\ IsPrefix(q_returned, q_accepted)
    /\ q_accepted = q_returned \o bq.queue
    /\ (\E t \in QThreads : q_result[t] = nullopt) =>
           (bq.closed /\ q_returned = q_accepted)
    /\ (q_last.op = "pop" /\ q_last.before.closed /\ q_last.before.queue = <<>>) =>
           (q_last.returned /\ q_last.result = nullopt /\ q_pc[q_last.thread] = "idle")
    /\ q_last.op = "close" =>
           /\ q_last.after.closed
           /\ q_last.after.queue = q_last.before.queue
           /\ q_last.before.closed => q_last.after = q_last.before

\* two items were accepted, the queue was closed, and both were popped before
\* a pop returned absent
C10_Witness ==
    /\ bq.closed
    /\ Len(q_returned) = 2
    /\ \E t \in QThreads : q_result[t] = nullopt
    /\ q_last.op = "pop" /\ q_last.before.closed /\ q_last.before.queue = <<>>

\* close was called on a closed queue that held an item
C10_WitnessSecondClose ==
    /\ q_last.op = "close"
    /\ q_last.before.closed
    /\ q_last.before.queue # <<>>

(***************************************************************************)
(* C11: with several producers and consumers on one BlockingQueue, a value *)
(* pushed while the queue was open is returned by at most one pop, only    *)
(* accepted values are returned, and the values of one producer are popped *)
(* in the order that producer pushed them, none of them overtaken.         *)
(***************************************************************************)
\* the values a pop has returned
ReturnedValues == { q_returned[i] : i \in DOMAIN q_returned }

C11_OncePerProducerOrder ==
    /\ \A i, j \in DOMAIN q_returned : i # j => q_returned[i] # q_returned[j]
    /\ ReturnedValues \subseteq { q_accepted[i] : i \in DOMAIN q_accepted }
    /\ \A i, j \in DOMAIN q_returned :
           (i < j /\ q_owner[q_returned[i]] = q_owner[q_returned[j]]) =>
               q_returned[i] < q_returned[j]
    /\ \A i \in DOMAIN q_returned : \A k \in DOMAIN q_accepted :
           (q_owner[q_accepted[k]] = q_owner[q_returned[i]] /\ q_accepted[k] < q_returned[i]) =>
               \E h \in 1 .. (i - 1) : q_returned[h] = q_accepted[k]

\* two producers pushed a value each and two consumers, the second of them
\* woken from its wait, popped one each
C11_Witness ==
    /\ q_returned = <<1, 2>>
    /\ q_owner[1] # q_owner[2]
    /\ \E s, t \in QThreads :
           /\ s # t
           /\ q_result[s] = Some(1)
           /\ q_result[t] = Some(2)
    /\ q_last.op = "pop" /\ q_last.returned /\ q_pc[q_last.thread] = "idle"

\* one producer pushed two values and both were popped, by two consumers
C11_WitnessSameProducer ==
    /\ q_returned = <<1, 2>>
    /\ q_owner[1] = q_owner[2]
    /\ \E s, t \in QThreads : s # t /\ q_result[s] = Some(1) /\ q_result[t] = Some(2)

(***************************************************************************)
(* C12 (as claimed): when a file does not open at discovery and another    *)
(* one opens, the failed camera takes part as a zero-length stream: it     *)
(* counts toward total_cams, so the run pushes no batch and closes the     *)
(* output queue.                                                           *)
(***************************************************************************)
\* the files of the directory whose capture does not open
FailedFiles == { i \in DOMAIN input_dir.entries : ~input_dir.entries[i].opened }

OpenedFiles == { i \in DOMAIN input_dir.entries : input_dir.entries[i].opened }

SomeFailedSomeOpened == input_dir.exists /\ FailedFiles # {} /\ OpenedFiles # {}

C12_FailedCameraForcesEmpty ==
    (Returned /\ SomeFailedSomeOpened) =>
        /\ total_cams = Len(input_dir.entries)
        /\ emitted = <<>>
        /\ output_queue.closed

(***************************************************************************)
(* C12 (amended): when a file does not open at discovery and another one   *)
(* opens, the failed camera is skipped: no reader is started for it and it *)
(* does not count toward total_cams, so with distinct ids among the opened *)
(* cameras the run pushes as many batches as the shortest opened camera    *)
(* has frames, each holding the opened cameras only, and closes the output *)
(* queue.                                                                  *)
(***************************************************************************)
C12_FailedCameraSkipped ==
    (Started /\ SomeFailedSomeOpened) =>
        /\ total_cams = Cardinality(OpenedFiles)
        /\ { r_stream[w].path : w \in Readers } = OpenedFiles
        /\ \A k \in 1 .. Len(emitted) :
               DOMAIN emitted[k].frames = { input_dir.entries[i].cam_id : i \in OpenedFiles }
        /\ (Returned /\ UniqueCamIds) =>
               /\ Len(emitted) = MinOf({ input_dir.entries[i].len : i \in OpenedFiles })
               /\ output_queue.closed

\* the first camera failed to open; the second one gave two batches
C12_Witness ==
    /\ Returned /\ SomeFailedSomeOpened
    /\ 1 \in FailedFiles
    /\ Len(emitted) = 2
    /\ output_queue.closed

(***************************************************************************)
(* C13: when no stream is discovered (the directory does not exist, holds  *)
(* no video file, or no video opens), extract_frames_parallel starts no    *)
(* reader thread and pushes no batch; it returns with the output queue     *)
(* closed and empty, so the consumer's first pop returns an absent result  *)
(* without waiting and the consumer ends with no batch.                    *)
(***************************************************************************)
NoStreamDiscovered == ~input_dir.exists \/ OpenedFiles = {}

C13_NoStreamClosesAtOnce ==
    NoStreamDiscovered =>
        /\ pcA \in {"call", "done"}
        /\ workers = {} /\ Readers = {} /\ total_cams = 0
        /\ packet_queue = NewQueue
        /\ emitted = <<>>
        /\ Returned =>
               /\ output_queue = [queue |-> <<>>, closed |-> TRUE]
               /\ QWaitDone(output_queue)
               /\ QPopResult(output_queue) = nullopt
        /\ pcC = "done" => (consumed = <<>> /\ batch_count = 0)

\* the only video of the directory did not open; the consumer has ended
C13_Witness ==
    /\ input_dir.exists /\ Len(input_dir.entries) = 1 /\ OpenedFiles = {}
    /\ Returned /\ pcC = "done"

\* the directory does not exist
C13_WitnessNoDirectory ==
    ~input_dir.exists /\ Returned /\ pcC = "done"

\* the directory holds no video file
C13_WitnessEmptyDirectory ==
    input_dir.exists /\ input_dir.entries = <<>> /\ Returned /\ pcC = "done"

(***************************************************************************)
(* C14: when a camera's read fails at frame index j (its first j reads     *)
(* succeeded), its reader leaves the loop as at end of stream: what it     *)
(* pushes last is a terminal packet of index j with an empty payload and   *)
(* nothing but the four packet fields (no error value), and the run never  *)
(* has more than j batches pushed.                                         *)
(***************************************************************************)
\* reader w has left its loop on a read that failed
ReadFailed(w) ==
    /\ r_pc[w] \in {"eof", "done"}
    /\ ~ReadSucceeds(r_stream[w], r_pos[w])

C14_ReadFailureIsEof ==
    \A w \in Readers :
        ReadFailed(w) =>
            LET j == FramesRead(w)
                s == pushed_packets[w]
            IN  /\ r_frame_index[w] = j
                /\ r_pc[w] = "eof" => Len(s) = j
                /\ r_pc[w] = "done" =>
                       /\ Len(s) = j + 1
                       /\ s[j + 1] = [cam_id |-> r_stream[w].cam_id, frame_index |-> j,
                                       frame |-> EmptyMat, eof |-> TRUE]
                /\ \A k \in 1 .. Len(s) : k <= j => ~s[k].eof
                /\ Len(emitted) <= j

\* the run has returned; one camera's read failed at index 1 while the other
\* camera had delivered two frames, and one batch was pushed
C14_Witness ==
    /\ Returned /\ UniqueCamIds /\ total_cams = 2
    /\ \E v, w \in Readers :
           /\ ReadFailed(w) /\ FramesRead(w) = 1
           /\ FramesRead(v) = 2
    /\ Len(emitted) = 1

(***************************************************************************)
(* C15: every batch pushed by extract_frames_parallel carries the          *)
(* timestamp frame_index / reference_fps, reference_fps being the rate of  *)
(* the stream of lowest camera id whose rate is positive; when no stream   *)
(* has a positive rate every batch carries timestamp 0.                    *)
(***************************************************************************)
\* the readers whose stream reports a positive rate
RatedReaders == { w \in Readers : r_stream[w].fps > 0 }

\* the rate of the rated stream of lowest camera id, 0 when there is none
LowestRatedFps ==
    IF RatedReaders = {} THEN 0
    ELSE LET low == MinOf({ r_stream[w].cam_id : w \in RatedReaders })
         IN  r_stream[CHOOSE w \in RatedReaders : r_stream[w].cam_id = low].fps

C15_TimestampFromReferenceFps ==
    (Started /\ UniqueCamIds) =>
        /\ reference_fps = LowestRatedFps
        /\ \A k \in 1 .. Len(emitted) :
               emitted[k].timestamp =
                   IF LowestRatedFps > 0
                   THEN Fraction(emitted[k].frame_index, LowestRatedFps)
                   ELSE <<0, 1>>

\* camera 0 reports no rate and camera 1 reports 30: the batch of index 1
\* carries timestamp 1/30
C15_Witness ==
    /\ total_cams = 2
    /\ r_stream[1].fps = 0 /\ r_stream[2].fps = 30
    /\ Len(emitted) = 2
    /\ emitted[2].timestamp = <<1, 30>>

\* no camera reports a rate: the batch of index 1 carries timestamp 0
C15_WitnessNoRate ==
    /\ total_cams = 2
    /\ RatedReaders = {}
    /\ Len(emitted) = 2
    /\ emitted[2].timestamp = <<0, 1>>

\* camera 0 reports 25 and camera 1 no rate
C15_WitnessFirstRated ==
    /\ total_cams = 2
    /\ r_stream[1].fps = 25 /\ r_stream[2].fps = 0
    /\ Len(emitted) = 2
    /\ emitted[2].timestamp = <<1, 25>>

(***************************************************************************)
(* C16: with several video_read_thread workers on one VideoTaskManager,    *)
(* the tasks are handed out in queue order, each to one worker and none    *)
(* twice; a task is either still queued or handed out, and none is queued  *)
(* once the workers have returned; each handed-out task leads to exactly   *)
(* one finish_task call, failed or not; and once all_tasks_completed is    *)
(* true every task was handed out and finished, and with unique camera ids *)
(* the completed map holds one entry per task.                             *)
(***************************************************************************)
SrcsOf(queue) == [i \in DOMAIN queue |-> queue[i].src]

HandedSrcs == [i \in DOMAIN handed |-> handed[i][2]]

UniqueTaskIds == \A i, j \in DOMAIN tasks : i # j => tasks[i].cam_id # tasks[j].cam_id

WorkersReturned == \A w \in VThreads : v_pc[w] = "done"

C16_EveryTaskOnce ==
    /\ HandedSrcs \o SrcsOf(task_queue_) = [i \in 1 .. Len(tasks) |-> i]
    /\ \A i, j \in DOMAIN finish_calls : i # j => finish_calls[i] # finish_calls[j]
    /\ \A i \in DOMAIN handed :
           LET w == handed[i][1]
               src == handed[i][2]
               held == v_pc[w] \in {"work", "finish"} /\ v_task[w].src = src
               finished == \E k \in DOMAIN finish_calls : finish_calls[k] = src
           IN  held # finished
    /\ \A k \in DOMAIN finish_calls : \E i \in DOMAIN handed : handed[i][2] = finish_calls[k]
    /\ completed_count_ = Len(finish_calls)
    /\ WorkersReturned => (task_queue_ = <<>> /\ Len(finish_calls) = Len(tasks))
    /\ all_tasks_completed =>
           /\ task_queue_ = <<>>
           /\ Len(finish_calls) = Len(tasks)
           /\ UniqueTaskIds =>
                  /\ DOMAIN completed_tasks_ = { tasks[i].cam_id : i \in DOMAIN tasks }
                  /\ Cardinality(DOMAIN completed_tasks_) = Len(tasks)
                  /\ \A i \in DOMAIN tasks :
                         completed_tasks_[tasks[i].cam_id] = Processed(tasks[i])

\* two tasks went to two workers, one of them failed; all are completed and
\* the threads were joined
C16_Witness ==
    /\ Len(tasks) = 2 /\ UniqueTaskIds
    /\ Len(handed) = 2 /\ handed[1][1] # handed[2][1]
    /\ all_tasks_completed
    /\ \E c \in DOMAIN completed_tasks_ : completed_tasks_[c].is_failed
    /\ m_pc = "done"

(***************************************************************************)
(* C17: get_task returns no task only when trigger_exit has been called    *)
(* and the task queue is empty: a task still queued at trigger_exit is     *)
(* still handed out, and before trigger_exit a call on an empty queue does *)
(* not return.  After trigger_exit no worker stays blocked, and a worker   *)
(* that calls or is woken in get_task on an empty queue gets no task and   *)
(* returns.  Hence, when every thread that can step eventually steps,      *)
(* every video_read_thread returns and main gets past its joins.           *)
(***************************************************************************)
GetTaskContract ==
    /\ (v_last.returned /\ v_last.result = nullopt) =>
           (v_last.exit /\ v_last.queue = <<>>)
    /\ v_last.queue # <<>> =>
           /\ v_last.returned
           /\ v_last.result = Some(Head(v_last.queue))
    /\ (v_last.thread \in VThreads /\ v_last.queue = <<>>) =>
           IF v_last.exit
           THEN /\ v_last.returned /\ v_last.result = nullopt
                /\ v_pc[v_last.thread] = "done"
           ELSE ~v_last.returned
    /\ exit_flag_ => (v_waiters = {} /\ \A w \in VThreads : v_pc[w] # "waiting")
    /\ \A w \in VThreads : v_pc[w] = "done" => (exit_flag_ /\ task_queue_ = <<>>)

Joined == WorkersReturned /\ m_pc \in {"verify", "done"}

C17_ExitEndsWorkers == []GetTaskContract /\ <>Joined

\* both tasks went to one worker and the other worker never got one; the last
\* get_task found exit_flag_ set and the queue empty, the workers have returned
\* and main is past its joins
C17_Witness ==
    /\ Joined
    /\ Len(handed) = 2
    /\ Len(finish_calls) = 2
    /\ \E w \in VThreads : v_task[w].src = 0
    /\ v_last.exit /\ v_last.queue = <<>> /\ v_last.result = nullopt

\* a get_task after trigger_exit found a task in the queue and returned it
C17_WitnessQueuedAtExit ==
    v_last.exit /\ v_last.queue # <<>> /\ v_last.result.has_value

\* a worker blocked in get_task was woken by trigger_exit and returned
C17_WitnessWoken ==
    /\ exit_flag_ /\ Len(tasks) = 0
    /\ v_last.thread \in VThreads /\ v_last.exit /\ v_pc[v_last.thread] = "done"
    /\ \E w \in VThreads : v_pc[w] = "woken"

StopFlagState ==
    /\ stop_flag <=> (Started /\ finished_cams = total_cams)
    /\ stop_stores = (IF ~stop_flag THEN 0 ELSE IF pcA = "exit_loop" THEN 1 ELSE 2)
    /\ stop_flag => \A w \in Readers : r_pc[w] = "done"
    /\ \A w \in Readers :
           r_pc[w] \in {"eof", "done"} => FramesRead(w) = r_stream[w].len

C18_WitnessReturned ==
    /\ Returned /\ total_cams = 2
    /\ stop_flag /\ stop_stores = 2
    /\ r_pos = <<2, 1>>

(***************************************************************************)
(* C19: once reader threads have been started, extract_frames_parallel     *)
(* neither leaves its main loop nor closes the output queue while some     *)
(* camera's terminal packet has not been popped by the assembler.  So      *)
(* while one reader sits in a read that does not return, the output queue  *)
(* stays open, also after every other camera has reported end of stream.   *)
(***************************************************************************)
\* the terminal packet of reader w has been popped by the assembler
TerminalPopped(w) ==
    /\ r_pc[w] = "done"
    /\ \A i \in DOMAIN packet_queue.queue :
           ~(packet_queue.queue[i].eof /\ packet_queue.queue[i] = pushed_packets[w][Len(pushed_packets[w])])

LeftMainLoop == pcA \in {"exit_loop", "join", "close_packets", "drain", "done"}

C19_NoCloseBeforeAllEof ==
    Started =>
        /\ (LeftMainLoop \/ output_queue.closed) =>
               /\ finished_cams = total_cams
               /\ \A w \in Readers : TerminalPopped(w)
        /\ \A w \in Readers :
               r_pc[w] # "done" => (pcA = "main_loop" /\ ~output_queue.closed)

\* every camera but one has reported end of stream; the last reader is inside
\* a read with frames left, the assembler is blocked in pop on the empty packet
\* queue, and the output queue is open
C19_Witness ==
    /\ total_cams = 2 /\ finished_cams = 1
    /\ \E w \in Readers :
           /\ r_pc[w] = "check" /\ FramesRead(w) < r_stream[w].len
           /\ Len(pushed_packets[w]) = 1
    /\ pcA = "main_loop" /\ ~QWaitDone(packet_queue)
    /\ ~output_queue.closed

\* the run has closed the output queue after two terminal packets
C19_WitnessClosed ==
    /\ total_cams = 2 /\ finished_cams = 2
    /\ output_queue.closed

(***************************************************************************)
(* C20: with unique camera ids, first_eof_frame_index is unset until the   *)
(* first terminal packet is processed and from then on is the least        *)
(* end-of-stream index among the cameras that have reported;               *)
(* next_batch_index never exceeds it; and once the terminal packet of      *)
(* every camera has been processed, the drain of that step included,       *)
(* next_batch_index equals first_eof_frame_index, the least end-of-stream  *)
(* index over all cameras.                                                 *)
(***************************************************************************)
EofIndices == { cam_eof_indices[c] : c \in DOMAIN cam_eof_indices }

C20_EmitIndexReachesFirstEof ==
    (Started /\ UniqueCamIds) =>
        /\ first_eof_frame_index < 0 <=> finished_cams = 0
        /\ first_eof_frame_index >= 0 =>
               /\ first_eof_frame_index = MinOf(EofIndices)
               /\ next_batch_index <= first_eof_frame_index
        /\ finished_cams = total_cams =>
               /\ DOMAIN cam_eof_indices = CameraSet
               /\ first_eof_frame_index = MinOf({ r_stream[w].len : w \in Readers })
               /\ next_batch_index = first_eof_frame_index

\* both terminal packets were processed, of indices 1 and 2: frame 1 of the
\* longer camera is left in the buffer and next_batch_index is 1
C20_Witness ==
    /\ UniqueCamIds /\ total_cams = 2 /\ finished_cams = 2
    /\ EofIndices = {1, 2}
    /\ first_eof_frame_index = 1 /\ next_batch_index = 1
    /\ 1 \in DOMAIN frame_buffer

\* one terminal packet was processed, of index 2, before any batch was complete
C20_WitnessEarlier ==
    /\ UniqueCamIds /\ total_cams = 2 /\ finished_cams = 1
    /\ first_eof_frame_index = 2 /\ next_batch_index = 0

(***************************************************************************)
(* C21: an index at or beyond a camera's end-of-stream boundary is never   *)
(* emitted.  For every batch pushed to the output queue, of index k, every *)
(* end-of-stream index recorded in cam_eof_indices is above k, when the    *)
(* batch is pushed and at every later moment of the run; the same holds of *)
(* the terminal packets still in the packet queue and of the index a       *)
(* reader that has left its loop reports.                                  *)
(***************************************************************************)
EmittedIndices == { emitted[k].frame_index : k \in 1 .. Len(emitted) }

C21_NoEmitBeyondEof ==
    Started =>
        \A k \in EmittedIndices :
            /\ \A c \in DOMAIN cam_eof_indices : cam_eof_indices[c] > k
            /\ \A i \in DOMAIN packet_queue.queue :
                   packet_queue.queue[i].eof => packet_queue.queue[i].frame_index > k
            /\ \A w \in Readers :
                   r_pc[w] \in {"eof", "done"} => r_frame_index[w] > k

\* batch 0 was pushed while no camera had reported; afterwards the cameras
\* reported the end-of-stream indices 1 and 2
C21_Witness ==
    /\ total_cams = 2 /\ finished_cams = 2
    /\ EmittedIndices = {0}
    /\ DOMAIN cam_eof_indices = CameraSet
    /\ { cam_eof_indices[c] : c \in CameraSet } = {1, 2}

\* batch 0 is out and one camera has recorded the end-of-stream index 1 while
\* the other camera is still reading
C21_WitnessOneReported ==
    /\ total_cams = 2 /\ finished_cams = 1
    /\ EmittedIndices = {0}
    /\ \E c \in DOMAIN cam_eof_indices : cam_eof_indices[c] = 1
    /\ \E w \in Readers : r_pc[w] # "done"


(***************************************************************************)
(* C22: a non-terminal packet of camera c and index i that the assembler   *)
(* pops, in the main loop or in the final pass, when cam_eof_indices holds *)
(* an end-of-stream index e for c with i >= e is discarded: the step       *)
(* leaves the reorder buffer, next_batch_index and the output queue as     *)
(* they were.                                                              *)
(***************************************************************************)
\* this step pops the head of the packet queue in one of the two loops
AssemblerPops ==
    /\ pcA \in {"main_loop", "drain"}
    /\ packet_queue.queue # <<>>
    /\ packet_queue'.queue = Tail(packet_queue.queue)

\* the head of the packet queue is a frame at or after the recorded end of its camera
HeadIsLate ==
    LET packet == Head(packet_queue.queue)
    IN  /\ ~packet.eof
        /\ packet.cam_id \in DOMAIN cam_eof_indices
        /\ packet.frame_index >= cam_eof_indices[packet.cam_id]

C22_LatePacketDiscarded ==
    [][ (AssemblerPops /\ HeadIsLate) =>
            /\ frame_buffer' = frame_buffer
            /\ next_batch_index' = next_batch_index
            /\ output_queue' = output_queue
            /\ emitted' = emitted
            /\ pcA' = pcA ]_vars

\* two files under one camera id, of one and two frames: the run has returned,
\* frame 1 of the longer file was pushed and popped, no batch was ever emitted
\* (so no buffer entry was ever erased) and the buffer has no entry for index 1:
\* the packet was popped after the shorter file's terminal packet and discarded
C22_Witness ==
    /\ Returned /\ total_cams = 2 /\ ~UniqueCamIds
    /\ emitted = <<>>
    /\ \E w \in Readers : \E i \in DOMAIN pushed_packets[w] :
           ~pushed_packets[w][i].eof /\ pushed_packets[w][i].frame_index = 1
    /\ 1 \notin DOMAIN frame_buffer


(***************************************************************************)
(* C23: in every run that started readers the shutdown of                  *)
(* extract_frames_parallel is ordered: the packet queue is closed only     *)
(* after every reader thread has returned and was joined; the final pass   *)
(* pops only from the closed packet queue; the output queue is closed only *)
(* after that pass has seen the packet queue closed and empty and the      *)
(* reorder buffer was drained once more, in the step that ends the run;    *)
(* and no batch is pushed to the output queue once it is closed: every     *)
(* batch pushed was accepted, and the batches of a closed output queue     *)
(* never change.                                                           *)
(***************************************************************************)
ShutdownOrder ==
    Started =>
        /\ packet_queue.closed =>
               /\ \A w \in Readers : r_pc[w] = "done"
               /\ workers = {}
               /\ pcA \in {"drain", "done"}
        /\ pcA \in {"drain", "done"} => packet_queue.closed
        /\ output_queue.closed =>
               /\ pcA = "done"
               /\ packet_queue.closed /\ packet_queue.queue = <<>>
               /\ ~(next_batch_index \in DOMAIN frame_buffer
                    /\ IsComplete(frame_buffer[next_batch_index], total_cams)
                    /\ next_batch_index < first_eof_frame_index)
        /\ pcA = "done" => output_queue.closed
        /\ emitted = consumed \o output_queue.queue

C23_ShutdownOrder ==
    /\ []ShutdownOrder
    /\ [][ (Started /\ output_queue.closed) => emitted' = emitted ]_vars

\* a run of two cameras has gone through the whole shutdown with one batch out
C23_Witness ==
    /\ Started /\ total_cams = 2
    /\ packet_queue.closed /\ output_queue.closed
    /\ workers = {} /\ Len(emitted) = 1

\* the readers have returned and were joined, the packet queue is still open
C23_WitnessJoined ==
    /\ Started /\ total_cams = 2
    /\ pcA = "close_packets" /\ workers = {}
    /\ ~packet_queue.closed /\ ~output_queue.closed


(***************************************************************************)
(* C24, as stated: when the output queue is closed by a run that started   *)
(* readers the reorder buffer holds no entry, the entries that can no      *)
(* longer be completed having been removed.                                *)
(***************************************************************************)
C24_BufferEmptyAtClose ==
    (Started /\ output_queue.closed) => frame_buffer = EmptyMap

(***************************************************************************)
(* C24, amended: a reorder-buffer entry for index i exists exactly from    *)
(* the first accepted packet for i until batch i is emitted, which removes *)
(* it in the same step, so no entry is below next_batch_index and every    *)
(* entry holds at least one frame; an entry whose index can no longer be   *)
(* completed is never emitted and is NOT removed: with unique camera ids,  *)
(* when the output queue is closed the buffer holds exactly the entries of *)
(* the indices from the shortest camera's length up to the longest         *)
(* camera's, each with the frames of the cameras that reach that index.    *)
(***************************************************************************)
\* the non-terminal packets of reader w that are no longer in flight
PoppedFrames(w) ==
    { i \in 0 .. r_frame_index[w] - 1 :
        \A j \in DOMAIN packet_queue.queue :
            packet_queue.queue[j] # ReadPacket(r_stream[w], i, Frame(r_stream[w].path, i)) }

C24_AbandonedEntriesStay ==
    (Started /\ UniqueCamIds) =>
        /\ \A i \in DOMAIN frame_buffer :
               /\ i >= next_batch_index
               /\ DOMAIN frame_buffer[i] # {}
               /\ DOMAIN frame_buffer[i] = { r_stream[w].cam_id : w \in { v \in Readers : i \in PoppedFrames(v) } }
        /\ \A w \in Readers : \A i \in PoppedFrames(w) :
               i >= next_batch_index => i \in DOMAIN frame_buffer
        /\ \A i \in EmittedIndices : i < next_batch_index
        /\ output_queue.closed =>
               DOMAIN frame_buffer =
                   { i \in 0 .. MaxPackets :
                       /\ i >= MinOf({ r_stream[w].len : w \in Readers })
                       /\ \E w \in Readers : i < r_stream[w].len }

\* the output queue is closed after one batch; frame 1 of the longer camera,
\* which can never be completed, is still in the buffer
C24_Witness ==
    /\ UniqueCamIds /\ total_cams = 2
    /\ output_queue.closed
    /\ EmittedIndices = {0}
    /\ DOMAIN frame_buffer = {1}


(***************************************************************************)
(* C25: first_eof_frame_index is unset (-1) exactly while no terminal      *)
(* packet has been processed; after each terminal packet it is the least   *)
(* end-of-stream index of all terminal packets processed so far, in        *)
(* whatever order they arrived and also when camera ids repeat; and once   *)
(* set it never increases and is never unset again.                        *)
(***************************************************************************)
\* terminal packets of index e pushed by the readers
TerminalsPushed(e) ==
    Cardinality({ w \in Readers :
        /\ pushed_packets[w] # <<>>
        /\ pushed_packets[w][Len(pushed_packets[w])].eof
        /\ pushed_packets[w][Len(pushed_packets[w])].frame_index = e })

\* terminal packets of index e waiting in the packet queue
TerminalsQueued(e) ==
    Cardinality({ j \in DOMAIN packet_queue.queue :
        packet_queue.queue[j].eof /\ packet_queue.queue[j].frame_index = e })

\* the end-of-stream indices of the terminal packets the assembler has processed
ProcessedEofIndices == { e \in 0 .. MaxPackets : TerminalsPushed(e) > TerminalsQueued(e) }

FirstEofIsMinimum ==
    Started =>
        /\ first_eof_frame_index = -1 <=> ProcessedEofIndices = {}
        /\ first_eof_frame_index = -1 <=> finished_cams = 0
        /\ ProcessedEofIndices # {} => first_eof_frame_index = MinOf(ProcessedEofIndices)

C25_FirstEofIsRunningMinimum ==
    /\ []FirstEofIsMinimum
    /\ [][ first_eof_frame_index >= 0 =>
               (first_eof_frame_index' >= 0 /\ first_eof_frame_index' <= first_eof_frame_index) ]_vars

\* two terminal packets were processed, of indices 1 and 2:
\* first_eof_frame_index is 1
C25_Witness ==
    /\ total_cams = 2 /\ finished_cams = 2
    /\ ProcessedEofIndices = {1, 2}
    /\ first_eof_frame_index = 1

\* one terminal packet, of index 2, was processed while a camera of one frame
\* has not reported yet: first_eof_frame_index is 2 and will come down to 1
C25_WitnessBeforeDecrease ==
    /\ total_cams = 2 /\ finished_cams = 1
    /\ ProcessedEofIndices = {2}
    /\ first_eof_frame_index = 2
    /\ \E w \in Readers : r_stream[w].len = 1 /\ ~TerminalPopped(w)

\* two files under one camera id: cam_eof_indices keeps the entry of the
\* terminal packet processed last, of index 2, and first_eof_frame_index is
\* still 1, the index of the one processed before it
C25_WitnessRepeatedId ==
    /\ total_cams = 2 /\ finished_cams = 2 /\ ~UniqueCamIds
    /\ ProcessedEofIndices = {1, 2}
    /\ EofIndices = {2}
    /\ first_eof_frame_index = 1


(***************************************************************************)
(* C26: no wakeup of BlockingQueue is lost.  While a consumer waits in pop *)
(* and the predicate of the wait holds (queue closed or not empty), a      *)
(* notify is still to come or another consumer was woken and has not run   *)
(* yet; once close was called every consumer waiting in pop eventually     *)
(* returns; and when a consumer is the only waiter and a pushed item is in *)
(* the queue, the notify_one of that push wakes this consumer, so that     *)
(* eventually the consumer has left its wait or another thread's pop has   *)
(* emptied the queue; and an item at the head of the queue while a         *)
(* consumer waits is eventually returned by a pop.                         *)
(***************************************************************************)
NoLostWakeup ==
    /\ (q_waiters # {} /\ bq.closed) => \E u \in QThreads : q_pc[u] = "close_notify"
    /\ (q_waiters # {} /\ bq.queue # <<>>) =>
           \E u \in QThreads : q_pc[u] \in {"push_notify", "close_notify", "woken"}
    /\ \A t \in QThreads : t \in q_waiters <=> q_pc[t] = "waiting"

C26_WitnessPush ==
    /\ Cardinality(q_waiters) = 1
    /\ ~bq.closed /\ Len(bq.queue) = 1
    /\ \E u \in QThreads : q_pc[u] = "push_notify"


(***************************************************************************)
(* C27: in the earlier extract_frames_parallel, which stores the stop flag *)
(* on the first terminal packet and records only that packet's index as    *)
(* first_eof_frame_index, a run with unique camera ids that has returned   *)
(* has emitted a batch for every index from 0 to first_eof_frame_index - 1 *)
(* and no other.                                                           *)
(***************************************************************************)
C27_OldEmitsBelowFirstEof ==
    (Started /\ UniqueCamIds /\ Returned) =>
        EmittedIndices = 0 .. (first_eof_frame_index - 1)

\* two cameras of one frame each: the terminal packet of one camera, of index
\* 1, was processed before the other reader tested the stop flag; that reader
\* read nothing, and the run returned without a batch
C27_Witness ==
    /\ Returned /\ UniqueCamIds /\ total_cams = 2
    /\ \A w \in Readers : r_stream[w].len = 1
    /\ \E w \in Readers : FramesRead(w) = 0
    /\ first_eof_frame_index = 1
    /\ emitted = <<>>


(***************************************************************************)
(* C28: the packet queue drops no packet of a reader.  It is closed only   *)
(* after every reader has pushed its terminal packet and returned, every   *)
(* push of a reader finds it open and appends the packet, and while the    *)
(* assembler is in its main loop the queue is open, so that a pop of the   *)
(* main loop, which waits for an item or the close, returns a packet.      *)
(***************************************************************************)
PacketQueueOpenForReaders ==
    Started =>
        /\ dropped = 0
        /\ packet_queue.closed =>
               \A w \in Readers :
                   /\ r_pc[w] = "done"
                   /\ pushed_packets[w] # <<>>
                   /\ pushed_packets[w][Len(pushed_packets[w])].eof
        /\ pcA = "main_loop" => ~packet_queue.closed

\* a step in which reader w pushes
ReaderPushes(w) ==
    /\ w \in DOMAIN pushed_packets /\ w \in DOMAIN pushed_packets'
    /\ Len(pushed_packets'[w]) = Len(pushed_packets[w]) + 1

C28_NoPacketDropped ==
    /\ []PacketQueueOpenForReaders
    /\ [][ \A w \in 1 .. MaxStreams :
               (Started /\ ReaderPushes(w)) =>
                   /\ ~packet_queue.closed
                   /\ packet_queue'.queue =
                          Append(packet_queue.queue, pushed_packets'[w][Len(pushed_packets'[w])]) ]_vars
    /\ [][ (pcA = "main_loop" /\ packet_queue' # packet_queue /\ pushed_packets' = pushed_packets)
               => (packet_queue.queue # <<>> /\ packet_queue'.queue = Tail(packet_queue.queue)) ]_vars

\* two readers have pushed five packets between them and returned, and the
\* packet queue was closed after all of them were popped
C28_Witness ==
    /\ total_cams = 2 /\ packet_queue.closed
    /\ Len(pushed_packets[1]) + Len(pushed_packets[2]) = 5
    /\ packet_queue.queue = <<>> /\ dropped = 0


(***************************************************************************)
(* C29: the main loop of extract_frames_parallel ends only with            *)
(* finished_cams = total_cams, and from then on the packet queue is empty  *)
(* and stays empty: the final pass after packet_queue.close() pops no      *)
(* packet, and neither it nor the last try_output_complete_batches emits a *)
(* batch or changes the reorder buffer.  Every batch of the run is emitted *)
(* inside the main loop.                                                   *)
(***************************************************************************)
NothingLeftAfterMainLoop ==
    (Started /\ LeftMainLoop) =>
        /\ finished_cams = total_cams
        /\ packet_queue.queue = <<>>
        /\ \A w \in Readers : r_pc[w] = "done"

C29_FinalPassFindsNothing ==
    /\ []NothingLeftAfterMainLoop
    /\ [][ (Started /\ LeftMainLoop) =>
               /\ emitted' = emitted
               /\ next_batch_index' = next_batch_index
               /\ frame_buffer' = frame_buffer
               /\ packet_queue'.queue = <<>> ]_vars

\* the final pass is about to pop: the packet queue is closed and empty, one
\* batch was emitted in the main loop and a frame is left in the buffer
C29_Witness ==
    /\ pcA = "drain" /\ total_cams = 2
    /\ packet_queue.closed /\ packet_queue.queue = <<>>
    /\ Len(emitted) = 1 /\ frame_buffer # EmptyMap

\* the final pass has ended the run: the batches are those of the main loop
C29_WitnessAfter ==
    /\ pcA = "done" /\ total_cams = 2 /\ UniqueCamIds
    /\ Len(emitted) = 1 /\ frame_buffer = EmptyMap /\ output_queue.closed


(***************************************************************************)
(* C30: with unique camera ids no frame of camera c is in flight or still  *)
(* to be pushed once c's terminal packet has been popped, so the assembler *)
(* never pops a non-terminal packet at or after its camera's recorded      *)
(* end-of-stream index (the discard branch is never taken), and every      *)
(* non-terminal packet it pops is inserted into the reorder buffer: after  *)
(* the step its frame is in the buffer entry of its index under its camera *)
(* id, or in the batch of that index emitted by the same step.             *)
(***************************************************************************)
NoFrameAfterTerminal ==
    (Started /\ UniqueCamIds) =>
        \A c \in DOMAIN cam_eof_indices :
            /\ r_pc[ReaderOf(c)] = "done"
            /\ \A i \in DOMAIN packet_queue.queue : packet_queue.queue[i].cam_id # c

\* the packet is in the reorder buffer fb or in one of the batches
InsertedIn(packet, fb, batches) ==
    \/ /\ packet.frame_index \in DOMAIN fb
       /\ packet.cam_id \in DOMAIN fb[packet.frame_index]
       /\ fb[packet.frame_index][packet.cam_id] = packet.frame
    \/ \E k \in DOMAIN batches :
           /\ batches[k].frame_index = packet.frame_index
           /\ packet.cam_id \in DOMAIN batches[k].frames
           /\ batches[k].frames[packet.cam_id] = packet.frame

C30_DiscardNeverTaken ==
    /\ []NoFrameAfterTerminal
    /\ [][ (Started /\ UniqueCamIds /\ AssemblerPops) =>
               /\ ~HeadIsLate
               /\ ~Head(packet_queue.queue).eof =>
                      /\ ~InsertedIn(Head(packet_queue.queue), frame_buffer, emitted)
                      /\ InsertedIn(Head(packet_queue.queue), frame_buffer', emitted') ]_vars

\* the terminal packet of a camera of two frames was popped, with index 2,
\* after both of its frames were inserted; the other camera is still reading
C30_Witness ==
    /\ UniqueCamIds /\ total_cams = 2 /\ finished_cams = 1
    /\ \E c \in DOMAIN cam_eof_indices :
           /\ cam_eof_indices[c] = 2
           /\ \A i \in {0, 1} : i \in DOMAIN frame_buffer /\ c \in DOMAIN frame_buffer[i]
    /\ \E w \in Readers : r_pc[w] # "done"


(***************************************************************************)
(* C31: when two of the streams extract_frames_parallel started carry the  *)
(* same camera id, no reorder-buffer entry ever holds total_cams keys and  *)
(* no batch is emitted, whatever the lengths of the streams; yet the run   *)
(* ends: it counts one terminal packet per reader, leaves the main loop,   *)
(* joins every reader and closes the output queue, which holds no batch.   *)
(***************************************************************************)
\* the terminal packets among what reader w has pushed
TerminalsOf(w) == { i \in DOMAIN pushed_packets[w] : pushed_packets[w][i].eof }

RepeatedIdEmitsNothing ==
    (Started /\ ~UniqueCamIds) =>
        /\ emitted = <<>> /\ output_queue.queue = <<>> /\ next_batch_index = 0
        /\ \A i \in DOMAIN frame_buffer :
               Cardinality(DOMAIN frame_buffer[i]) < total_cams
        /\ \A w \in Readers : Cardinality(TerminalsOf(w)) <= 1
        /\ finished_cams <= Cardinality({ w \in Readers : TerminalsOf(w) # {} })
        /\ LeftMainLoop =>
               /\ finished_cams = total_cams
               /\ \A w \in Readers : Cardinality(TerminalsOf(w)) = 1
        /\ Returned =>
               /\ workers = {}
               /\ \A w \in Readers : r_pc[w] = "done"
               /\ packet_queue.closed /\ output_queue.closed

C31_RepeatedIdEmitsNothing ==
    /\ []RepeatedIdEmitsNothing
    /\ (Started /\ ~UniqueCamIds) ~> (Returned /\ output_queue.closed /\ emitted = <<>>)

\* two files of one frame each under one camera id: the run has returned with
\* both terminal packets counted and no batch; the entry of index 0 holds one
\* key, the second frame's emplace having found the key taken
C31_Witness ==
    /\ Returned /\ ~UniqueCamIds /\ total_cams = 2
    /\ \A w \in Readers : r_stream[w].len = 1 /\ FramesRead(w) = 1
    /\ finished_cams = 2 /\ output_queue.closed
    /\ emitted = <<>>
    /\ 0 \in DOMAIN frame_buffer /\ Cardinality(DOMAIN frame_buffer[0]) = 1

\* files of three frames and none under one camera id: no batch either
C31_WitnessLong ==
    /\ Returned /\ ~UniqueCamIds /\ total_cams = 2
    /\ \E w \in Readers : FramesRead(w) = 3
    /\ emitted = <<>> /\ DOMAIN frame_buffer = {0, 1, 2}


=============================================================================
